---- MODULE Spec2Model ----
(***************************************************************************)
(* Hybrid UDP/TCP file transfer of the chat application: two peers, each   *)
(* running a FileTransferManager (fileTransfer.js) on top of a             *)
(* NetworkManager (networking.js) and a background transfer worker.        *)
(* Peer "A" is the peer whose user calls sendFile; peer "B" is the         *)
(* counterpart.  Every handler of the manager is one action; the channels  *)
(* between the peers lose, duplicate and reorder datagrams and deliver     *)
(* reliable messages in order, possibly more than once.                    *)
(***************************************************************************)
EXTENDS Integers, Sequences, FiniteSets, TLC

\* ------------------------------------------------------------------ constants
CHUNK_SIZE == 65536
MAX_RETRY_COUNT == 3

\* ------------------------------------------------------------------ bounds
\* environment events in one run: duplicate deliveries, application calls of
\* cancelTransfer, socket disconnects and file read errors
MaxEnvEvents == 1

\* tasks handed to ThreadPool.executeTask in one run
MaxTasks == 3

\* messages the arbitrary peer makes the manager handle in one run
MaxInjected == 2

\* the maxWorkers the ThreadPool is constructed with
MaxWorkers == 1

\* server.js: the number of worker threads of the ChatServer
MAX_WORKERS == 4

\* connections the ChatServer accepts in one run
MaxConnections == 6

\* calls of ChatServer.start and ChatServer.shutdown in one run
MaxLifecycleCalls == 3

\* bytes of file content a client streams to the TCP file server
MaxContent == 3

Tasks == 1..MaxTasks

Peers == {"A", "B"}
Other(p) == IF p = "A" THEN "B" ELSE "A"

FileIds == {"f1"}
\* sizes of the files handed to sendFile: 0, 1 and 2 chunks
FileSizes == {0, 1, CHUNK_SIZE + 1}

\* processFile: transferId = fileId + '-' + Date.now()
TransferIdOf(fileId) == <<fileId, "now">>

\* sendFile: return fileId, the identifier without the part processFile adds
SendFileReturn(fileId) == <<fileId>>
ReturnedIds == {SendFileReturn(f) : f \in FileIds}
TransferIds == {TransferIdOf(f) : f \in FileIds}

EventKinds == {"progress", "complete", "error", "receive-progress",
               "file-received", "aborted", "incoming-file", "cancelled"}

\* the callbacks the application registers with on(event, callback), and the
\* event kinds it registers them for
Listeners == {"l1", "l2"}
ListenerKinds == {"cancelled", "complete"}

VARIABLES
  connected,     \* NetworkManager.connected of each peer
  transfers,     \* FileTransferManager.transfers of each peer
  timers,        \* armed retry timers (setTimeout handles not yet fired or cleared)
  deleteTimers,  \* armed 5 s removal timers of cancelTransfer, per transfer
  events,        \* number of emitEvent calls per peer, transfer and event kind
  sent,          \* the sendTcpMessage / sendUdpMessage calls of each peer, in order
  toWorker,      \* messages posted to the transfer worker, not yet handled
  fromWorker,    \* messages posted by the transfer worker, not yet handled
  wkTransfers,   \* the worker's activeTransfers entries and reader closures
  tcpNet,        \* reliable messages in flight to each peer (in order)
  udpNet,        \* datagrams in flight to each peer
  started,       \* file ids already handed to sendFile
  envEvents,     \* environment events so far
  injected,      \* messages an arbitrary peer has made the manager handle
  taskQueue,     \* ThreadPool.taskQueue: the ids of the waiting tasks
  activeWorkers, \* ThreadPool.activeWorkers
  workers,       \* the worker thread of each task
  promises,      \* the promise executeTask returned for each task
  startOrder,    \* the tasks in the order their workers were created
  parallel,      \* the Promise.all of the executeParallel call
  listeners,     \* FileTransferManager.listeners of peer A, in insertion order
  lastEmit,      \* the callbacks the latest emitEvent of peer A called
  chatServer,    \* the fields of the ChatServer instance (server.js)
  serverEnv,     \* the worker threads and client sockets of the ChatServer
  tcpSocket      \* a connection to the backend's TCP file server (network.js)

\* the state of the two FileTransferManagers, their workers and the network
transferVars == <<connected, transfers, timers, deleteTimers, events, sent,
                  toWorker, fromWorker, wkTransfers, tcpNet, udpNet, started,
                  envEvents>>

\* the state of the backend's ThreadPool
poolVars == <<taskQueue, activeWorkers, workers, promises, startOrder>>

\* the listener registry of peer A and what its latest emitEvent did
listenerVars == <<listeners, lastEmit>>

\* the ChatServer, its surroundings and the TCP file server of the backend
backendVars == <<chatServer, serverEnv, tcpSocket>>

vars == <<transferVars, injected, poolVars, parallel, listenerVars, backendVars>>

\* no executeParallel call yet; no emitEvent call observed yet
NoParallel == [state |-> "none", tasks |-> <<>>, values |-> <<>>]
NoEmit == [kind |-> "none", calls |-> <<>>, propagated |-> FALSE]

\* new ChatServer(): the constructor's fields
NewChatServer ==
  [tcpServer |-> "null", udpServer |-> "null", workers |-> <<>>,
   clientWorkerMap |-> <<>>, onlineUsers |-> {}, isRunning |-> FALSE]

\* the surroundings of a new ChatServer: no worker thread, no client socket,
\* no start() or shutdown() call under way
NewServerEnv ==
  [threads |-> <<>>, sockets |-> <<>>, connections |-> 0, starting |-> FALSE,
   stopping |-> FALSE, failed |-> FALSE, calls |-> 0, emitted |-> {}]

\* no client is connected to the TCP file server
NoSocket == [state |-> "none"]

\* ------------------------------------------------------------------ records
NoRecord == [status |-> "none"]

\* Math.ceil(file.size / CHUNK_SIZE)
TotalChunks(size) == (size + CHUNK_SIZE - 1) \div CHUNK_SIZE

Min(a, b) == IF a < b THEN a ELSE b

\* readNextChunk: file.slice(start, end) as the byte range <<start, end>>
SliceOf(chunkIndex, size) ==
  LET start == chunkIndex * CHUNK_SIZE
      end == Min(start + CHUNK_SIZE, size)
  IN  <<start, end>>

\* the record sendFileMetadata stores: the metadata fields, status and the
\* three collections; it has no field "chunks"
SenderRecord(m) ==
  [fileSize |-> m.fileSize, totalChunks |-> m.totalChunks, status |-> "sending",
   sentChunks |-> {}, acknowledgedChunks |-> {}, retries |-> <<>>]

\* the record handleIncomingFileMetadata stores
ReceiverRecord(m) ==
  [fileSize |-> m.fileSize, totalChunks |-> m.totalChunks, status |-> "receiving",
   receivedChunks |-> <<>>, missingChunks |-> {}]

IsSenderRecord(r) == "sentChunks" \in DOMAIN r
IsReceiverRecord(r) == "receivedChunks" \in DOMAIN r

\* emitEvent(event, data)
EmitEvent(ev, p, t, kind) == [ev EXCEPT ![p][t][kind] = @ + 1]

\* NetworkManager.sendTcpMessage / sendUdpMessage: the call is logged with its
\* return value; the message leaves only while connected
LogCall(log, p, chan, msg) ==
  [log EXCEPT ![p] = Append(@, [chan |-> chan, ok |-> connected[p], msg |-> msg])]

SendTcpMessage(net, p, msg) ==
  IF connected[p] THEN [net EXCEPT ![Other(p)] = Append(@, msg)] ELSE net

\* sendUdpMessage without the check of this.connected
SendUdpMessageUnguarded(net, p, msg) ==
  [net EXCEPT ![Other(p)] = @ \cup {msg}]

SendUdpMessage(net, p, msg) ==
  IF connected[p] THEN [net EXCEPT ![Other(p)] = @ \cup {msg}] ELSE net

ChunkMessage(t, chunkIndex, chunk, isLast, totalChunks) ==
  [type |-> "file-chunk", transferId |-> t, chunkIndex |-> chunkIndex,
   chunk |-> chunk, isLast |-> isLast, totalChunks |-> totalChunks]


\* ------------------------------------------------------------------ initial state
Init ==
  /\ connected = [p \in Peers |-> FALSE]
  /\ transfers = [p \in Peers |-> [t \in TransferIds |-> NoRecord]]
  /\ timers = [p \in Peers |-> {}]
  /\ deleteTimers = [p \in Peers |-> [t \in TransferIds |-> 0]]
  /\ events = [p \in Peers |-> [t \in TransferIds |-> [k \in EventKinds |-> 0]]]
  /\ sent = [p \in Peers |-> <<>>]
  /\ toWorker = [p \in Peers |-> <<>>]
  /\ fromWorker = [p \in Peers |-> <<>>]
  /\ wkTransfers = [p \in Peers |-> [t \in TransferIds |-> NoRecord]]
  /\ tcpNet = [p \in Peers |-> <<>>]
  /\ udpNet = [p \in Peers |-> {}]
  /\ started = {}
  /\ envEvents = 0
  /\ injected = <<>>
  /\ taskQueue = <<>>
  /\ activeWorkers = 0
  /\ workers = [k \in Tasks |-> "unstarted"]
  /\ promises = [k \in Tasks |-> "none"]
  /\ startOrder = <<>>
  /\ parallel = NoParallel
  /\ listeners = [kind \in ListenerKinds |-> <<>>]
  /\ lastEmit = NoEmit
  /\ chatServer = NewChatServer
  /\ serverEnv = NewServerEnv
  /\ tcpSocket = NoSocket

\* ------------------------------------------------------------------ NetworkManager
\* socketIO.on('connect')
SocketConnect(p) ==
  /\ ~connected[p]
  /\ connected' = [connected EXCEPT ![p] = TRUE]
  /\ UNCHANGED <<transfers, timers, deleteTimers, events, sent, toWorker,
                 fromWorker, wkTransfers, tcpNet, udpNet, started, envEvents>>
  /\ UNCHANGED <<poolVars, injected, parallel, listenerVars, backendVars>>

\* socketIO.on('disconnect')
SocketDisconnect(p) ==
  /\ envEvents < MaxEnvEvents
  /\ connected[p]
  /\ connected' = [connected EXCEPT ![p] = FALSE]
  /\ envEvents' = envEvents + 1
  /\ UNCHANGED <<transfers, timers, deleteTimers, events, sent, toWorker,
                 fromWorker, wkTransfers, tcpNet, udpNet, started>>
  /\ UNCHANGED <<poolVars, injected, parallel, listenerVars, backendVars>>

\* ------------------------------------------------------------------ sendFile
\* sendFile(file, receiverId) on peer A: posts 'process-file' to the worker
SendFile(fileId, size) ==
  /\ fileId \notin started
  /\ started' = started \cup {fileId}
  /\ toWorker' = [toWorker EXCEPT !["A"] =
                    Append(@, [type |-> "process-file", fileId |-> fileId, size |-> size])]
  /\ UNCHANGED <<connected, transfers, timers, deleteTimers, events, sent,
                 fromWorker, wkTransfers, tcpNet, udpNet, envEvents>>
  /\ UNCHANGED <<poolVars, injected, parallel, listenerVars, backendVars>>

\* ------------------------------------------------------------------ transfer worker
\* worker processFile + the start of readFileChunks (first readNextChunk)
WorkerProcessFile(p) ==
  /\ toWorker[p] # <<>>
  /\ Head(toWorker[p]).type = "process-file"
  /\ LET m == Head(toWorker[p])
         t == TransferIdOf(m.fileId)
         total == TotalChunks(m.size)
     IN  /\ wkTransfers' = [wkTransfers EXCEPT ![p][t] =
                              [status |-> "processing", inMap |-> TRUE,
                               fileSize |-> m.size, totalChunks |-> total,
                               sentChunks |-> 0, chunkIndex |-> 0, reading |-> TRUE]]
         /\ fromWorker' = [fromWorker EXCEPT ![p] =
                              Append(@, [type |-> "send-metadata", transferId |-> t,
                                         fileSize |-> m.size, totalChunks |-> total])]
  /\ toWorker' = [toWorker EXCEPT ![p] = Tail(@)]
  /\ UNCHANGED <<connected, transfers, timers, deleteTimers, events, sent,
                 tcpNet, udpNet, started, envEvents>>
  /\ UNCHANGED <<poolVars, injected, parallel, listenerVars, backendVars>>

\* fileReader.onload posting every chunk with isLast: true
WorkerReaderOnloadAllLast(p, t) ==
  /\ wkTransfers[p][t].status # "none"
  /\ wkTransfers[p][t].reading
  /\ LET w == wkTransfers[p][t]
         next == w.chunkIndex + 1
     IN  IF w.status = "aborted"
         THEN /\ wkTransfers' = [wkTransfers EXCEPT ![p][t].reading = FALSE]
              /\ UNCHANGED fromWorker
         ELSE /\ wkTransfers' = [wkTransfers EXCEPT ![p][t] =
                   [w EXCEPT !.sentChunks = @ + 1,
                             !.chunkIndex = next,
                             !.reading = next < w.totalChunks,
                             !.status = IF next < w.totalChunks THEN @ ELSE "complete"]]
              /\ fromWorker' = [fromWorker EXCEPT ![p] =
                   @ \o <<[type |-> "send-chunk", transferId |-> t,
                           chunkIndex |-> w.chunkIndex,
                           chunk |-> SliceOf(w.chunkIndex, w.fileSize),
                           isLast |-> TRUE],
                          [type |-> "progress-update", transferId |-> t]>>
                     \o (IF next < w.totalChunks THEN <<>>
                         ELSE <<[type |-> "transfer-complete", transferId |-> t]>>)]
  /\ UNCHANGED <<connected, transfers, timers, deleteTimers, events, sent,
                 toWorker, tcpNet, udpNet, started, envEvents>>
  /\ UNCHANGED <<poolVars, injected, parallel, listenerVars, backendVars>>

\* fileReader.onload of readFileChunks
WorkerReaderOnload(p, t) ==
  /\ wkTransfers[p][t].status # "none"
  /\ wkTransfers[p][t].reading
  /\ LET w == wkTransfers[p][t]
         next == w.chunkIndex + 1
     IN  IF w.status = "aborted"
         THEN /\ wkTransfers' = [wkTransfers EXCEPT ![p][t].reading = FALSE]
              /\ UNCHANGED fromWorker
         ELSE /\ wkTransfers' = [wkTransfers EXCEPT ![p][t] =
                   [w EXCEPT !.sentChunks = @ + 1,
                             !.chunkIndex = next,
                             !.reading = next < w.totalChunks,
                             !.status = IF next < w.totalChunks THEN @ ELSE "complete"]]
              /\ fromWorker' = [fromWorker EXCEPT ![p] =
                   @ \o <<[type |-> "send-chunk", transferId |-> t,
                           chunkIndex |-> w.chunkIndex,
                           chunk |-> SliceOf(w.chunkIndex, w.fileSize),
                           isLast |-> (w.chunkIndex = w.totalChunks - 1)],
                          [type |-> "progress-update", transferId |-> t]>>
                     \o (IF next < w.totalChunks THEN <<>>
                         ELSE <<[type |-> "transfer-complete", transferId |-> t]>>)]
  /\ UNCHANGED <<connected, transfers, timers, deleteTimers, events, sent,
                 toWorker, tcpNet, udpNet, started, envEvents>>
  /\ UNCHANGED <<poolVars, injected, parallel, listenerVars, backendVars>>

\* fileReader.onerror of readFileChunks
WorkerReaderOnerror(p, t) ==
  /\ wkTransfers[p][t].status # "none"
  /\ wkTransfers[p][t].reading
  /\ envEvents < MaxEnvEvents
  /\ envEvents' = envEvents + 1
  /\ wkTransfers' = [wkTransfers EXCEPT ![p][t].reading = FALSE,
                                        ![p][t].status = "error"]
  /\ fromWorker' = [fromWorker EXCEPT ![p] =
                      Append(@, [type |-> "transfer-error", transferId |-> t])]
  /\ UNCHANGED <<connected, transfers, timers, deleteTimers, events, sent,
                 toWorker, tcpNet, udpNet, started>>
  /\ UNCHANGED <<poolVars, injected, parallel, listenerVars, backendVars>>

\* worker processChunk
WorkerProcessChunk(p) ==
  /\ toWorker[p] # <<>>
  /\ Head(toWorker[p]).type = "process-chunk"
  /\ LET m == Head(toWorker[p])
     IN  fromWorker' = [fromWorker EXCEPT ![p] =
           @ \o <<[type |-> "chunk-received", transferId |-> m.transferId]>>
             \o (IF m.chunkIndex = m.totalChunks - 1
                 THEN <<[type |-> "receive-complete", transferId |-> m.transferId]>>
                 ELSE <<>>)]
  /\ toWorker' = [toWorker EXCEPT ![p] = Tail(@)]
  /\ UNCHANGED <<connected, transfers, timers, deleteTimers, events, sent,
                 wkTransfers, tcpNet, udpNet, started, envEvents>>
  /\ UNCHANGED <<poolVars, injected, parallel, listenerVars, backendVars>>

\* worker abortTransfer
WorkerAbortTransfer(p) ==
  /\ toWorker[p] # <<>>
  /\ Head(toWorker[p]).type = "abort-transfer"
  /\ LET t == Head(toWorker[p]).transferId
         w == wkTransfers[p][t]
     IN  IF w.status # "none" /\ w.inMap
         THEN /\ wkTransfers' = [wkTransfers EXCEPT ![p][t].status = "aborted",
                                                    ![p][t].inMap = FALSE]
              /\ fromWorker' = [fromWorker EXCEPT ![p] =
                   Append(@, [type |-> "transfer-aborted", transferId |-> t])]
         ELSE UNCHANGED <<wkTransfers, fromWorker>>
  /\ toWorker' = [toWorker EXCEPT ![p] = Tail(@)]
  /\ UNCHANGED <<connected, transfers, timers, deleteTimers, events, sent,
                 tcpNet, udpNet, started, envEvents>>
  /\ UNCHANGED <<poolVars, injected, parallel, listenerVars, backendVars>>

\* ------------------------------------------------------------------ FileTransferManager
\* sendFileMetadata(transferId, metadata, receiverId)
SendFileMetadata(p, m) ==
  LET msg == [type |-> "file-metadata", transferId |-> m.transferId,
              fileSize |-> m.fileSize, totalChunks |-> m.totalChunks]
  IN  /\ sent' = LogCall(sent, p, "tcp", msg)
      /\ tcpNet' = SendTcpMessage(tcpNet, p, msg)
      /\ transfers' = [transfers EXCEPT ![p][m.transferId] = SenderRecord(m)]

\* sendFileChunk with the status guard reduced to "the record is live": a
\* cancelled record still sends
SendFileChunkAfterCancel(p, m) ==
  LET t == m.transferId
      rec == transfers[p][t]
      msg == ChunkMessage(t, m.chunkIndex, m.chunk, m.isLast, rec.totalChunks)
  IN  IF rec.status \notin {"sending", "cancelled"}
      THEN UNCHANGED <<transfers, sent, udpNet, timers>>
      ELSE /\ transfers' = [transfers EXCEPT ![p][t] =
                  [rec EXCEPT !.sentChunks = @ \cup {m.chunkIndex},
                              !.retries = (m.chunkIndex :> [count |-> 0]) @@ @]]
           /\ sent' = LogCall(sent, p, "udp", msg)
           /\ udpNet' = SendUdpMessage(udpNet, p, msg)
           /\ timers' = [timers EXCEPT ![p] = @ \cup {<<t, m.chunkIndex>>}]

\* sendFileChunk without transfer.sentChunks.add(chunkIndex)
SendFileChunkUnmarked(p, m) ==
  LET t == m.transferId
      rec == transfers[p][t]
      msg == ChunkMessage(t, m.chunkIndex, m.chunk, m.isLast, rec.totalChunks)
  IN  IF rec.status # "sending"
      THEN UNCHANGED <<transfers, sent, udpNet, timers>>
      ELSE /\ transfers' = [transfers EXCEPT ![p][t] =
                  [rec EXCEPT !.retries = (m.chunkIndex :> [count |-> 0]) @@ @]]
           /\ sent' = LogCall(sent, p, "udp", msg)
           /\ udpNet' = SendUdpMessage(udpNet, p, msg)
           /\ timers' = [timers EXCEPT ![p] = @ \cup {<<t, m.chunkIndex>>}]

\* sendFileChunk(transferId, chunkIndex, chunk, isLast, receiverId)
SendFileChunk(p, m) ==
  LET t == m.transferId
      rec == transfers[p][t]
      msg == ChunkMessage(t, m.chunkIndex, m.chunk, m.isLast, rec.totalChunks)
  IN  IF rec.status # "sending"
      THEN UNCHANGED <<transfers, sent, udpNet, timers>>
      ELSE /\ transfers' = [transfers EXCEPT ![p][t] =
                  [rec EXCEPT !.sentChunks = @ \cup {m.chunkIndex},
                              !.retries = (m.chunkIndex :> [count |-> 0]) @@ @]]
           /\ sent' = LogCall(sent, p, "udp", msg)
           /\ udpNet' = SendUdpMessage(udpNet, p, msg)
           /\ timers' = [timers EXCEPT ![p] = @ \cup {<<t, m.chunkIndex>>}]

\* the read of transfer.chunks[chunkIndex] in retryChunk succeeds only on a
\* record that has a field "chunks"; otherwise it throws a TypeError
ChunksDefined(rec) == "chunks" \in DOMAIN rec

\* retryChunk arming the next timer before it builds the message: the count
\* goes up at every fire
RetryChunkRearms(p, t, i, tm0) ==
  LET rec == transfers[p][t]
  IN  IF \/ rec.status # "sending"
         \/ i \notin DOMAIN rec.retries
         \/ i \in rec.acknowledgedChunks
      THEN /\ timers' = tm0
           /\ UNCHANGED <<transfers, sent, tcpNet, udpNet>>
      ELSE /\ transfers' = [transfers EXCEPT ![p][t].retries[i].count = @ + 1]
           /\ timers' = [tm0 EXCEPT ![p] = @ \cup {<<t, i>>}]
           /\ UNCHANGED <<sent, tcpNet, udpNet>>

\* retryChunk(transferId, chunkIndex, receiverId); tm0 is the timer set after
\* the firing timer left it
RetryChunk(p, t, i, tm0) ==
  LET rec == transfers[p][t]
  IN  IF \/ rec.status # "sending"
         \/ i \notin DOMAIN rec.retries
         \/ i \in rec.acknowledgedChunks
      THEN /\ timers' = tm0
           /\ UNCHANGED <<transfers, sent, tcpNet, udpNet>>
      ELSE LET count == rec.retries[i].count + 1
               counted == [transfers EXCEPT ![p][t].retries[i].count = count]
           IN  IF ~ChunksDefined(rec)
               THEN \* retryInfo.count++ happened, then the TypeError ends the callback
                    /\ transfers' = counted
                    /\ timers' = tm0
                    /\ UNCHANGED <<sent, tcpNet, udpNet>>
               ELSE LET msg == ChunkMessage(t, i, rec.chunks[i],
                                            i = rec.totalChunks - 1, rec.totalChunks)
                    IN  IF count > MAX_RETRY_COUNT
                        THEN /\ transfers' = counted
                             /\ sent' = LogCall(sent, p, "tcp", msg)
                             /\ tcpNet' = SendTcpMessage(tcpNet, p, msg)
                             /\ timers' = tm0
                             /\ UNCHANGED udpNet
                        ELSE /\ transfers' = counted
                             /\ sent' = LogCall(sent, p, "udp", msg)
                             /\ udpNet' = SendUdpMessage(udpNet, p, msg)
                             /\ timers' = [tm0 EXCEPT ![p] = @ \cup {<<t, i>>}]
                             /\ UNCHANGED tcpNet

\* handleIncomingFileMetadata(metadata, senderId); tcp0 is the reliable
\* channel after the handled message left it
HandleIncomingFileMetadata(p, m, tcp0) ==
  LET t == m.transferId
      ack == [type |-> "file-metadata-ack", transferId |-> t, status |-> "ready"]
  IN  /\ transfers' = [transfers EXCEPT ![p][t] = ReceiverRecord(m)]
      /\ events' = EmitEvent(events, p, t, "incoming-file")
      /\ sent' = LogCall(sent, p, "tcp", ack)
      /\ tcpNet' = SendTcpMessage(tcp0, p, ack)
      /\ UNCHANGED <<timers, deleteTimers, toWorker>>

\* assembleFile(transferId), applied to the record rec of transfer t
AssembleFile(rec) ==
  IF rec.status # "receiving" THEN rec ELSE [rec EXCEPT !.status = "complete"]

\* handleIncomingFileChunk acknowledging also a chunk that it drops because
\* its record is missing or not 'receiving'
HandleIncomingFileChunkAcksAll(p, m, tcp0) ==
  LET t == m.transferId
      rec == transfers[p][t]
      ack == [type |-> "file-chunk-ack", transferId |-> t,
              chunkIndex |-> m.chunkIndex, status |-> "received"]
  IN  IF rec.status # "receiving"
      THEN /\ sent' = LogCall(sent, p, "tcp", ack)
           /\ tcpNet' = SendTcpMessage(tcp0, p, ack)
           /\ UNCHANGED <<transfers, events, timers, deleteTimers, toWorker>>
      ELSE LET stored == [rec EXCEPT !.receivedChunks = (m.chunkIndex :> m.chunk) @@ @]
               all == Cardinality(DOMAIN stored.receivedChunks) = stored.totalChunks
           IN  /\ toWorker' = [toWorker EXCEPT ![p] =
                     Append(@, [type |-> "process-chunk", transferId |-> t,
                                chunkIndex |-> m.chunkIndex,
                                totalChunks |-> m.totalChunks])]
               /\ sent' = LogCall(sent, p, "tcp", ack)
               /\ tcpNet' = SendTcpMessage(tcp0, p, ack)
               /\ transfers' = [transfers EXCEPT ![p][t] =
                     IF all THEN AssembleFile(stored) ELSE stored]
               /\ events' = IF all THEN EmitEvent(events, p, t, "file-received")
                            ELSE events
               /\ UNCHANGED <<timers, deleteTimers>>

\* handleIncomingFileChunk(transferId, chunkIndex, chunk, metadata)
HandleIncomingFileChunk(p, m, tcp0) ==
  LET t == m.transferId
      rec == transfers[p][t]
  IN  IF rec.status # "receiving"
      THEN /\ tcpNet' = tcp0
           /\ UNCHANGED <<transfers, events, sent, timers, deleteTimers, toWorker>>
      ELSE LET stored == [rec EXCEPT !.receivedChunks = (m.chunkIndex :> m.chunk) @@ @]
               ack == [type |-> "file-chunk-ack", transferId |-> t,
                       chunkIndex |-> m.chunkIndex, status |-> "received"]
               all == Cardinality(DOMAIN stored.receivedChunks) = stored.totalChunks
           IN  /\ toWorker' = [toWorker EXCEPT ![p] =
                     Append(@, [type |-> "process-chunk", transferId |-> t,
                                chunkIndex |-> m.chunkIndex,
                                totalChunks |-> m.totalChunks])]
               /\ sent' = LogCall(sent, p, "tcp", ack)
               /\ tcpNet' = SendTcpMessage(tcp0, p, ack)
               /\ transfers' = [transfers EXCEPT ![p][t] =
                     IF all THEN AssembleFile(stored) ELSE stored]
               /\ events' = IF all THEN EmitEvent(events, p, t, "file-received")
                            ELSE events
               /\ UNCHANGED <<timers, deleteTimers>>

\* handleChunkAcknowledgment with the status guard reduced to "the record is
\* live": a cancelled record still takes acknowledgements
HandleChunkAcknowledgmentOnCancelled(p, m, tcp0) ==
  LET t == m.transferId
      i == m.chunkIndex
      rec == transfers[p][t]
  IN  /\ tcpNet' = tcp0
      /\ IF rec.status \notin {"sending", "cancelled"} \/ m.status # "received"
         THEN UNCHANGED <<transfers, events, timers>>
         ELSE LET acked == rec.acknowledgedChunks \cup {i}
                  cleared == i \in DOMAIN rec.retries
                  retries == IF cleared
                             THEN [j \in DOMAIN rec.retries \ {i} |-> rec.retries[j]]
                             ELSE rec.retries
                  all == Cardinality(acked) = rec.totalChunks
              IN  /\ transfers' = [transfers EXCEPT ![p][t] =
                        [rec EXCEPT !.acknowledgedChunks = acked,
                                    !.retries = retries,
                                    !.status = IF all THEN "complete" ELSE @]]
                  /\ timers' = IF cleared
                               THEN [timers EXCEPT ![p] = @ \ {<<t, i>>}]
                               ELSE timers
                  /\ events' = IF all THEN EmitEvent(events, p, t, "complete")
                               ELSE events
      /\ UNCHANGED <<sent, deleteTimers, toWorker>>

\* handleChunkAcknowledgment clearing the retry state of every chunk of the
\* transfer instead of the acknowledged one
HandleChunkAcknowledgmentClearsAll(p, m, tcp0) ==
  LET t == m.transferId
      i == m.chunkIndex
      rec == transfers[p][t]
  IN  /\ tcpNet' = tcp0
      /\ IF rec.status # "sending" \/ m.status # "received"
         THEN UNCHANGED <<transfers, events, timers>>
         ELSE LET acked == rec.acknowledgedChunks \cup {i}
                  cleared == i \in DOMAIN rec.retries
                  retries == <<>>
                  all == Cardinality(acked) = rec.totalChunks
              IN  /\ transfers' = [transfers EXCEPT ![p][t] =
                        [rec EXCEPT !.acknowledgedChunks = acked,
                                    !.retries = retries,
                                    !.status = IF all THEN "complete" ELSE @]]
                  /\ timers' = [timers EXCEPT ![p] =
                                 @ \ {<<t, j>> : j \in DOMAIN rec.retries}]
                  /\ events' = IF all THEN EmitEvent(events, p, t, "complete")
                               ELSE events
      /\ UNCHANGED <<sent, deleteTimers, toWorker>>

\* handleChunkAcknowledgment without clearTimeout(retryInfo.timeout): the
\* retry entry is deleted, the timer stays armed
HandleChunkAcknowledgmentKeepsTimer(p, m, tcp0) ==
  LET t == m.transferId
      i == m.chunkIndex
      rec == transfers[p][t]
  IN  /\ tcpNet' = tcp0
      /\ IF rec.status # "sending" \/ m.status # "received"
         THEN UNCHANGED <<transfers, events, timers>>
         ELSE LET acked == rec.acknowledgedChunks \cup {i}
                  cleared == i \in DOMAIN rec.retries
                  retries == IF cleared
                             THEN [j \in DOMAIN rec.retries \ {i} |-> rec.retries[j]]
                             ELSE rec.retries
                  all == Cardinality(acked) = rec.totalChunks
              IN  /\ transfers' = [transfers EXCEPT ![p][t] =
                        [rec EXCEPT !.acknowledgedChunks = acked,
                                    !.retries = retries,
                                    !.status = IF all THEN "complete" ELSE @]]
                  /\ timers' = timers
                  /\ events' = IF all THEN EmitEvent(events, p, t, "complete")
                               ELSE events
      /\ UNCHANGED <<sent, deleteTimers, toWorker>>

\* handleChunkAcknowledgment(transferId, chunkIndex, status)
HandleChunkAcknowledgment(p, m, tcp0) ==
  LET t == m.transferId
      i == m.chunkIndex
      rec == transfers[p][t]
  IN  /\ tcpNet' = tcp0
      /\ IF rec.status # "sending" \/ m.status # "received"
         THEN UNCHANGED <<transfers, events, timers>>
         ELSE LET acked == rec.acknowledgedChunks \cup {i}
                  cleared == i \in DOMAIN rec.retries
                  retries == IF cleared
                             THEN [j \in DOMAIN rec.retries \ {i} |-> rec.retries[j]]
                             ELSE rec.retries
                  all == Cardinality(acked) = rec.totalChunks
              IN  /\ transfers' = [transfers EXCEPT ![p][t] =
                        [rec EXCEPT !.acknowledgedChunks = acked,
                                    !.retries = retries,
                                    !.status = IF all THEN "complete" ELSE @]]
                  /\ timers' = IF cleared
                               THEN [timers EXCEPT ![p] = @ \ {<<t, i>>}]
                               ELSE timers
                  /\ events' = IF all THEN EmitEvent(events, p, t, "complete")
                               ELSE events
      /\ UNCHANGED <<sent, deleteTimers, toWorker>>

\* completeFileReceive(transferId, metadata)
CompleteFileReceive(p, t) ==
  IF transfers[p][t].status = "none"
  THEN UNCHANGED <<transfers, events>>
  ELSE /\ transfers' = [transfers EXCEPT ![p][t].status = "complete"]
       /\ events' = EmitEvent(events, p, t, "file-received")

\* this.transfers.get(transferId), for any identifier
TransferOf(p, id) ==
  IF id \in DOMAIN transfers[p] THEN transfers[p][id] ELSE NoRecord

\* cancelTransfer emptying receivedChunks of a receiver's record at once
CancelTransferClearsChunks(p, t, tcp0) ==
  LET rec == TransferOf(p, t)
      msg == [type |-> "file-transfer-cancel", transferId |-> t]
  IN  IF rec.status = "none"
      THEN /\ tcpNet' = tcp0
           /\ UNCHANGED <<transfers, events, sent, timers, deleteTimers, toWorker>>
      ELSE /\ timers' = IF rec.status = "sending"
                        THEN [timers EXCEPT ![p] =
                                @ \ {<<t, i>> : i \in DOMAIN rec.retries}]
                        ELSE timers
           /\ sent' = IF rec.status \in {"sending", "receiving"}
                      THEN LogCall(sent, p, "tcp", msg) ELSE sent
           /\ tcpNet' = IF rec.status \in {"sending", "receiving"}
                        THEN SendTcpMessage(tcp0, p, msg) ELSE tcp0
           /\ toWorker' = [toWorker EXCEPT ![p] =
                             Append(@, [type |-> "abort-transfer", transferId |-> t])]
           /\ transfers' = [transfers EXCEPT ![p][t] =
                             IF IsReceiverRecord(rec)
                             THEN [rec EXCEPT !.status = "cancelled",
                                              !.receivedChunks = <<>>]
                             ELSE [rec EXCEPT !.status = "cancelled"]]
           /\ events' = EmitEvent(events, p, t, "cancelled")
           /\ deleteTimers' = [deleteTimers EXCEPT ![p][t] = @ + 1]

\* cancelTransfer without the clearTimeout loop over transfer.retries
CancelTransferKeepsTimers(p, t, tcp0) ==
  LET rec == TransferOf(p, t)
      msg == [type |-> "file-transfer-cancel", transferId |-> t]
  IN  IF rec.status = "none"
      THEN /\ tcpNet' = tcp0
           /\ UNCHANGED <<transfers, events, sent, timers, deleteTimers, toWorker>>
      ELSE /\ timers' = timers
           /\ sent' = IF rec.status \in {"sending", "receiving"}
                      THEN LogCall(sent, p, "tcp", msg) ELSE sent
           /\ tcpNet' = IF rec.status \in {"sending", "receiving"}
                        THEN SendTcpMessage(tcp0, p, msg) ELSE tcp0
           /\ toWorker' = [toWorker EXCEPT ![p] =
                             Append(@, [type |-> "abort-transfer", transferId |-> t])]
           /\ transfers' = [transfers EXCEPT ![p][t].status = "cancelled"]
           /\ events' = EmitEvent(events, p, t, "cancelled")
           /\ deleteTimers' = [deleteTimers EXCEPT ![p][t] = @ + 1]

\* cancelTransfer notifying the peer whatever the record's status is
CancelTransferAlwaysNotifies(p, t, tcp0) ==
  LET rec == TransferOf(p, t)
      msg == [type |-> "file-transfer-cancel", transferId |-> t]
  IN  IF rec.status = "none"
      THEN /\ tcpNet' = tcp0
           /\ UNCHANGED <<transfers, events, sent, timers, deleteTimers, toWorker>>
      ELSE /\ timers' = IF rec.status = "sending"
                        THEN [timers EXCEPT ![p] =
                                @ \ {<<t, i>> : i \in DOMAIN rec.retries}]
                        ELSE timers
           /\ sent' = LogCall(sent, p, "tcp", msg)
           /\ tcpNet' = SendTcpMessage(tcp0, p, msg)
           /\ toWorker' = [toWorker EXCEPT ![p] =
                             Append(@, [type |-> "abort-transfer", transferId |-> t])]
           /\ transfers' = [transfers EXCEPT ![p][t].status = "cancelled"]
           /\ events' = EmitEvent(events, p, t, "cancelled")
           /\ deleteTimers' = [deleteTimers EXCEPT ![p][t] = @ + 1]

\* cancelTransfer(transferId)
CancelTransfer(p, t, tcp0) ==
  LET rec == TransferOf(p, t)
      msg == [type |-> "file-transfer-cancel", transferId |-> t]
  IN  IF rec.status = "none"
      THEN /\ tcpNet' = tcp0
           /\ UNCHANGED <<transfers, events, sent, timers, deleteTimers, toWorker>>
      ELSE /\ timers' = IF rec.status = "sending"
                        THEN [timers EXCEPT ![p] =
                                @ \ {<<t, i>> : i \in DOMAIN rec.retries}]
                        ELSE timers
           /\ sent' = IF rec.status \in {"sending", "receiving"}
                      THEN LogCall(sent, p, "tcp", msg) ELSE sent
           /\ tcpNet' = IF rec.status \in {"sending", "receiving"}
                        THEN SendTcpMessage(tcp0, p, msg) ELSE tcp0
           /\ toWorker' = [toWorker EXCEPT ![p] =
                             Append(@, [type |-> "abort-transfer", transferId |-> t])]
           /\ transfers' = [transfers EXCEPT ![p][t].status = "cancelled"]
           /\ events' = EmitEvent(events, p, t, "cancelled")
           /\ deleteTimers' = [deleteTimers EXCEPT ![p][t] = @ + 1]

\* handleNetworkMessage(message)
HandleNetworkMessage(p, m, tcp0) ==
  CASE m.type = "file-metadata" -> HandleIncomingFileMetadata(p, m, tcp0)
    [] m.type = "file-chunk" -> HandleIncomingFileChunk(p, m, tcp0)
    [] m.type = "file-chunk-ack" -> HandleChunkAcknowledgment(p, m, tcp0)
    [] m.type = "file-transfer-cancel" -> CancelTransfer(p, m.transferId, tcp0)
    [] OTHER -> /\ tcpNet' = tcp0
                /\ UNCHANGED <<transfers, events, sent, timers, deleteTimers, toWorker>>

\* ------------------------------------------------------------------ transferWorker.onmessage
WorkerHead(p, type) == fromWorker[p] # <<>> /\ Head(fromWorker[p]).type = type

\* case 'send-metadata'
OnSendMetadata(p) ==
  /\ WorkerHead(p, "send-metadata")
  /\ SendFileMetadata(p, Head(fromWorker[p]))
  /\ fromWorker' = [fromWorker EXCEPT ![p] = Tail(@)]
  /\ UNCHANGED <<connected, timers, deleteTimers, events, toWorker,
                 wkTransfers, udpNet, started, envEvents>>
  /\ UNCHANGED <<poolVars, injected, parallel, listenerVars, backendVars>>

\* case 'send-chunk'
OnSendChunk(p) ==
  /\ WorkerHead(p, "send-chunk")
  /\ SendFileChunk(p, Head(fromWorker[p]))
  /\ fromWorker' = [fromWorker EXCEPT ![p] = Tail(@)]
  /\ UNCHANGED <<connected, deleteTimers, events, toWorker, wkTransfers,
                 tcpNet, started, envEvents>>
  /\ UNCHANGED <<poolVars, injected, parallel, listenerVars, backendVars>>

\* the cases that only emit an event
EventOfWorkerMessage(type) ==
  CASE type = "progress-update" -> "progress"
    [] type = "transfer-complete" -> "complete"
    [] type = "transfer-error" -> "error"
    [] type = "chunk-received" -> "receive-progress"
    [] type = "transfer-aborted" -> "aborted"

OnWorkerEvent(p, type) ==
  /\ WorkerHead(p, type)
  /\ events' = EmitEvent(events, p, Head(fromWorker[p]).transferId,
                         EventOfWorkerMessage(type))
  /\ fromWorker' = [fromWorker EXCEPT ![p] = Tail(@)]
  /\ UNCHANGED <<connected, transfers, timers, deleteTimers, sent, toWorker,
                 wkTransfers, tcpNet, udpNet, started, envEvents>>
  /\ UNCHANGED <<poolVars, injected, parallel, listenerVars, backendVars>>

OnProgressUpdate(p) == OnWorkerEvent(p, "progress-update")
OnTransferComplete(p) == OnWorkerEvent(p, "transfer-complete")
OnTransferError(p) == OnWorkerEvent(p, "transfer-error")
OnChunkReceived(p) == OnWorkerEvent(p, "chunk-received")
OnTransferAborted(p) == OnWorkerEvent(p, "transfer-aborted")

\* case 'receive-complete'
OnReceiveComplete(p) ==
  /\ WorkerHead(p, "receive-complete")
  /\ CompleteFileReceive(p, Head(fromWorker[p]).transferId)
  /\ fromWorker' = [fromWorker EXCEPT ![p] = Tail(@)]
  /\ UNCHANGED <<connected, timers, deleteTimers, sent, toWorker,
                 wkTransfers, tcpNet, udpNet, started, envEvents>>
  /\ UNCHANGED <<poolVars, injected, parallel, listenerVars, backendVars>>

\* ------------------------------------------------------------------ timers
\* the setTimeout callback armed by sendFileChunk / retryChunk fires
RetryTimerFire(p, t, i) ==
  /\ <<t, i>> \in timers[p]
  /\ RetryChunk(p, t, i, [timers EXCEPT ![p] = @ \ {<<t, i>>}])
  /\ UNCHANGED <<connected, deleteTimers, events, toWorker, fromWorker,
                 wkTransfers, started, envEvents>>
  /\ UNCHANGED <<poolVars, injected, parallel, listenerVars, backendVars>>

\* the setTimeout callback of cancelTransfer fires: this.transfers.delete
DeleteTimerFire(p, t) ==
  /\ deleteTimers[p][t] > 0
  /\ deleteTimers' = [deleteTimers EXCEPT ![p][t] = @ - 1]
  /\ transfers' = [transfers EXCEPT ![p][t] = NoRecord]
  /\ UNCHANGED <<connected, timers, events, sent, toWorker, fromWorker,
                 wkTransfers, tcpNet, udpNet, started, envEvents>>
  /\ UNCHANGED <<poolVars, injected, parallel, listenerVars, backendVars>>

\* ------------------------------------------------------------------ application
\* the application calls cancelTransfer with a transferId it saw in an event
\* or with the identifier sendFile returned
CancelCall(p, t) ==
  /\ envEvents < MaxEnvEvents
  /\ envEvents' = envEvents + 1
  /\ CancelTransfer(p, t, tcpNet)
  /\ UNCHANGED <<connected, fromWorker, wkTransfers, udpNet, started>>
  /\ UNCHANGED <<poolVars, injected, parallel, listenerVars, backendVars>>

\* ------------------------------------------------------------------ channels
\* socketIO.on('message') for the oldest reliable message in flight
TcpDeliver(p) ==
  /\ connected[p]
  /\ tcpNet[p] # <<>>
  /\ HandleNetworkMessage(p, Head(tcpNet[p]), [tcpNet EXCEPT ![p] = Tail(@)])
  /\ UNCHANGED <<connected, fromWorker, wkTransfers, udpNet, started,
                 envEvents>>
  /\ UNCHANGED <<poolVars, injected, parallel, listenerVars, backendVars>>

\* at-least-once delivery: the message is handled and stays in flight
TcpDeliverAgain(p) ==
  /\ connected[p]
  /\ tcpNet[p] # <<>>
  /\ envEvents < MaxEnvEvents
  /\ envEvents' = envEvents + 1
  /\ HandleNetworkMessage(p, Head(tcpNet[p]), tcpNet)
  /\ UNCHANGED <<connected, fromWorker, wkTransfers, udpNet, started>>
  /\ UNCHANGED <<poolVars, injected, parallel, listenerVars, backendVars>>

\* a datagram arrives, in any order
UdpDeliver(p, m) ==
  /\ connected[p]
  /\ m \in udpNet[p]
  /\ udpNet' = [udpNet EXCEPT ![p] = @ \ {m}]
  /\ HandleNetworkMessage(p, m, tcpNet)
  /\ UNCHANGED <<connected, fromWorker, wkTransfers, started, envEvents>>
  /\ UNCHANGED <<poolVars, injected, parallel, listenerVars, backendVars>>

\* a datagram arrives and a copy of it stays in flight
UdpDeliverAgain(p, m) ==
  /\ connected[p]
  /\ m \in udpNet[p]
  /\ envEvents < MaxEnvEvents
  /\ envEvents' = envEvents + 1
  /\ HandleNetworkMessage(p, m, tcpNet)
  /\ UNCHANGED <<connected, fromWorker, wkTransfers, udpNet, started>>
  /\ UNCHANGED <<poolVars, injected, parallel, listenerVars, backendVars>>

\* a datagram is lost
UdpLose(p, m) ==
  /\ m \in udpNet[p]
  /\ udpNet' = [udpNet EXCEPT ![p] = @ \ {m}]
  /\ UNCHANGED <<connected, transfers, timers, deleteTimers, events, sent,
                 toWorker, fromWorker, wkTransfers, tcpNet, started,
                 envEvents>>
  /\ UNCHANGED <<poolVars, injected, parallel, listenerVars, backendVars>>

\* ------------------------------------------------------------------ specification
Next ==
  \/ \E p \in Peers : SocketConnect(p)
  \/ \E p \in Peers : SocketDisconnect(p)
  \/ \E f \in FileIds, size \in FileSizes : SendFile(f, size)
  \/ \E p \in Peers : WorkerProcessFile(p)
  \/ \E p \in Peers, t \in TransferIds : WorkerReaderOnload(p, t)
  \/ \E p \in Peers, t \in TransferIds : WorkerReaderOnerror(p, t)
  \/ \E p \in Peers : WorkerProcessChunk(p)
  \/ \E p \in Peers : WorkerAbortTransfer(p)
  \/ \E p \in Peers : OnSendMetadata(p)
  \/ \E p \in Peers : OnSendChunk(p)
  \/ \E p \in Peers : OnProgressUpdate(p)
  \/ \E p \in Peers : OnTransferComplete(p)
  \/ \E p \in Peers : OnTransferError(p)
  \/ \E p \in Peers : OnChunkReceived(p)
  \/ \E p \in Peers : OnTransferAborted(p)
  \/ \E p \in Peers : OnReceiveComplete(p)
  \/ \E p \in Peers, t \in TransferIds, i \in 0..3 : RetryTimerFire(p, t, i)
  \/ \E p \in Peers, t \in TransferIds : DeleteTimerFire(p, t)
  \/ \E p \in Peers, t \in TransferIds \cup ReturnedIds : CancelCall(p, t)
  \/ \E p \in Peers : TcpDeliver(p)
  \/ \E p \in Peers : TcpDeliverAgain(p)
  \/ \E p \in Peers : \E m \in udpNet[p] : UdpDeliver(p, m)
  \/ \E p \in Peers : \E m \in udpNet[p] : UdpDeliverAgain(p, m)
  \/ \E p \in Peers : \E m \in udpNet[p] : UdpLose(p, m)

Spec == Init /\ [][Next]_vars

\* the steps the program and the network take by themselves: worker and
\* manager handlers, timer callbacks and deliveries (not the application's
\* calls, disconnects, read errors, duplicates or losses)
ProgramNext ==
  \/ \E p \in Peers : SocketConnect(p)
  \/ \E p \in Peers : WorkerProcessFile(p)
  \/ \E p \in Peers, t \in TransferIds : WorkerReaderOnload(p, t)
  \/ \E p \in Peers : WorkerProcessChunk(p)
  \/ \E p \in Peers : WorkerAbortTransfer(p)
  \/ \E p \in Peers : OnSendMetadata(p)
  \/ \E p \in Peers : OnSendChunk(p)
  \/ \E p \in Peers : OnProgressUpdate(p)
  \/ \E p \in Peers : OnTransferComplete(p)
  \/ \E p \in Peers : OnTransferError(p)
  \/ \E p \in Peers : OnChunkReceived(p)
  \/ \E p \in Peers : OnTransferAborted(p)
  \/ \E p \in Peers : OnReceiveComplete(p)
  \/ \E p \in Peers, t \in TransferIds, i \in 0..3 : RetryTimerFire(p, t, i)
  \/ \E p \in Peers, t \in TransferIds : DeleteTimerFire(p, t)
  \/ \E p \in Peers : TcpDeliver(p)
  \/ \E p \in Peers : \E m \in udpNet[p] : UdpDeliver(p, m)

\* timers fire, queued worker and network messages are handled
FairSpec == Spec /\ WF_vars(ProgramNext)

TypeOK ==
  /\ connected \in [Peers -> BOOLEAN]
  /\ envEvents \in 0..MaxEnvEvents

\* ------------------------------------------------------------------ the manager against an arbitrary peer
\* Peer A's FileTransferManager alone, sending up to two files, while its peer
\* may send any protocol message of transfer "f1", and the acknowledgement of
\* the chunk of "f2", at any time, whether or not A has a record of the
\* transfer and whatever the record's status.
OpenIds == {TransferIdOf(f) : f \in {"f1", "f2"}}

\* the files A sends: "f1" has two chunks, "f2" one
OpenSize(t) == IF t = TransferIdOf("f1") THEN CHUNK_SIZE + 1 ELSE 1

\* the messages of the peer: the metadata and the chunk of a one-chunk file,
\* a cancellation, and acknowledgements of either status for two indices
OpenMessages ==
  LET t == TransferIdOf("f1")
  IN  {[type |-> "file-metadata", transferId |-> t, fileSize |-> 1,
        totalChunks |-> TotalChunks(1)],
       ChunkMessage(t, 0, SliceOf(0, 1), TRUE, TotalChunks(1)),
       [type |-> "file-transfer-cancel", transferId |-> t]}
      \cup {[type |-> "file-chunk-ack", transferId |-> t, chunkIndex |-> i,
             status |-> st] : i \in 0..1, st \in {"received", "failed"}}
      \cup {[type |-> "file-chunk-ack", transferId |-> TransferIdOf("f2"),
             chunkIndex |-> 0, status |-> "received"]}

OpenInit ==
  /\ connected = [p \in Peers |-> TRUE]
  /\ transfers = [p \in Peers |-> [t \in OpenIds |-> NoRecord]]
  /\ timers = [p \in Peers |-> {}]
  /\ deleteTimers = [p \in Peers |-> [t \in OpenIds |-> 0]]
  /\ events = [p \in Peers |-> [t \in OpenIds |-> [k \in EventKinds |-> 0]]]
  /\ sent = [p \in Peers |-> <<>>]
  /\ toWorker = [p \in Peers |-> <<>>]
  /\ fromWorker = [p \in Peers |-> <<>>]
  /\ wkTransfers = [p \in Peers |-> [t \in OpenIds |-> NoRecord]]
  /\ tcpNet = [p \in Peers |-> <<>>]
  /\ udpNet = [p \in Peers |-> {}]
  /\ started = {}
  /\ envEvents = 0
  /\ injected = <<>>
  /\ taskQueue = <<>>
  /\ activeWorkers = 0
  /\ workers = [k \in Tasks |-> "unstarted"]
  /\ promises = [k \in Tasks |-> "none"]
  /\ startOrder = <<>>
  /\ parallel = NoParallel
  /\ listeners = [kind \in ListenerKinds |-> <<>>]
  /\ lastEmit = NoEmit
  /\ chatServer = NewChatServer
  /\ serverEnv = NewServerEnv
  /\ tcpSocket = NoSocket

\* the 'send-metadata' message of the worker for a new transfer is handled
OpenSendMetadata(t) ==
  /\ t[1] \notin started
  /\ started' = started \cup {t[1]}
  /\ SendFileMetadata("A", [transferId |-> t, fileSize |-> OpenSize(t),
                            totalChunks |-> TotalChunks(OpenSize(t))])
  /\ UNCHANGED <<connected, timers, deleteTimers, events, toWorker, fromWorker,
                 wkTransfers, udpNet, envEvents, injected, poolVars>>
  /\ UNCHANGED <<parallel, listenerVars, backendVars>>

\* the next 'send-chunk' message of the worker is handled
OpenSendChunk(t) ==
  /\ t[1] \in started
  /\ IsSenderRecord(transfers["A"][t])
  /\ LET i == Cardinality(transfers["A"][t].sentChunks)
     IN  /\ i < TotalChunks(OpenSize(t))
         /\ transfers["A"][t].status = "sending"
         /\ SendFileChunk("A", [transferId |-> t, chunkIndex |-> i,
                                chunk |-> SliceOf(i, OpenSize(t)),
                                isLast |-> (i = TotalChunks(OpenSize(t)) - 1)])
  /\ UNCHANGED <<connected, deleteTimers, events, toWorker, fromWorker,
                 wkTransfers, tcpNet, started, envEvents, injected, poolVars>>
  /\ UNCHANGED <<parallel, listenerVars, backendVars>>

\* socketIO.on('message') with a message of the arbitrary peer
OpenDeliver(m) ==
  /\ Len(injected) < MaxInjected
  /\ injected' = Append(injected, m)
  /\ HandleNetworkMessage("A", m, tcpNet)
  /\ UNCHANGED <<connected, fromWorker, wkTransfers, udpNet, started,
                 envEvents, poolVars>>
  /\ UNCHANGED <<parallel, listenerVars, backendVars>>

OpenNext ==
  \/ \E t \in OpenIds : OpenSendMetadata(t)
  \/ \E t \in OpenIds : OpenSendChunk(t)
  \/ \E m \in OpenMessages : OpenDeliver(m)
  \/ \E t \in OpenIds, i \in 0..1 : RetryTimerFire("A", t, i)
  \/ \E t \in OpenIds : DeleteTimerFire("A", t)

OpenSpec == OpenInit /\ [][OpenNext]_vars

\* ------------------------------------------------------------------ event listeners
\* on(event, callback): a Set keeps a callback once, in insertion order
ListenerOn(kind, l) ==
  /\ \A i \in 1..Len(listeners[kind]) : listeners[kind][i] # l
  /\ listeners' = [listeners EXCEPT ![kind] = Append(@, l)]
  /\ UNCHANGED <<transferVars, injected, poolVars, parallel, lastEmit, backendVars>>

\* off(event, callback)
ListenerOff(kind, l) ==
  /\ \E i \in 1..Len(listeners[kind]) : listeners[kind][i] = l
  /\ listeners' = [listeners EXCEPT ![kind] =
                     SelectSeq(@, LAMBDA x : x # l)]
  /\ UNCHANGED <<transferVars, injected, poolVars, parallel, lastEmit, backendVars>>

\* emitEvent without the try/catch around the callback: the first exception
\* ends the forEach and reaches the caller
EmitEventRunNoCatch(kind, th) ==
  LET ls == listeners[kind]
      throwers == {i \in 1..Len(ls) : ls[i] \in th}
      last == IF throwers = {} THEN Len(ls)
              ELSE CHOOSE i \in throwers : \A j \in throwers : i <= j
  IN  [kind |-> kind,
       calls |-> [i \in 1..last |-> [listener |-> ls[i], threw |-> ls[i] \in th]],
       propagated |-> throwers # {}]

\* emitEvent(kind, data) while the callbacks in th throw: every callback of
\* the kind is called inside try/catch, in insertion order
EmitEventRun(kind, th) ==
  LET ls == listeners[kind]
  IN  [kind |-> kind,
       calls |-> [i \in 1..Len(ls) |-> [listener |-> ls[i], threw |-> ls[i] \in th]],
       propagated |-> FALSE]

\* cancelTransfer(transferId) as far as an exception out of its emitEvent call
\* would let it run: everything but the setTimeout of the removal
CancelTransferUntilEmit(p, t, tcp0) ==
  LET rec == TransferOf(p, t)
      msg == [type |-> "file-transfer-cancel", transferId |-> t]
  IN  /\ timers' = IF rec.status = "sending"
                   THEN [timers EXCEPT ![p] =
                           @ \ {<<t, i>> : i \in DOMAIN rec.retries}]
                   ELSE timers
      /\ sent' = IF rec.status \in {"sending", "receiving"}
                 THEN LogCall(sent, p, "tcp", msg) ELSE sent
      /\ tcpNet' = IF rec.status \in {"sending", "receiving"}
                   THEN SendTcpMessage(tcp0, p, msg) ELSE tcp0
      /\ toWorker' = [toWorker EXCEPT ![p] =
                        Append(@, [type |-> "abort-transfer", transferId |-> t])]
      /\ transfers' = [transfers EXCEPT ![p][t].status = "cancelled"]
      /\ events' = EmitEvent(events, p, t, "cancelled")
      /\ UNCHANGED deleteTimers

\* the application calls cancelTransfer(t) on peer A while the callbacks in th
\* are in a state in which they throw
ListenerCancel(t, th) ==
  /\ envEvents < MaxEnvEvents
  /\ envEvents' = envEvents + 1
  /\ LET run == EmitEventRun("cancelled", th)
     IN  IF TransferOf("A", t).status = "none"
         THEN /\ CancelTransfer("A", t, tcpNet)
              /\ UNCHANGED lastEmit
         ELSE /\ lastEmit' = run
              /\ IF run.propagated
                 THEN CancelTransferUntilEmit("A", t, tcpNet)
                 ELSE CancelTransfer("A", t, tcpNet)
  /\ UNCHANGED <<connected, fromWorker, wkTransfers, udpNet, started>>
  /\ UNCHANGED <<injected, poolVars, parallel, listeners, backendVars>>

\* peer A's manager with an application that registers and removes callbacks
\* and cancels a transfer
ListenerNext ==
  \/ \E kind \in ListenerKinds, l \in Listeners : ListenerOn(kind, l)
  \/ \E kind \in ListenerKinds, l \in Listeners : ListenerOff(kind, l)
  \/ OpenSendMetadata(TransferIdOf("f1"))
  \/ OpenSendChunk(TransferIdOf("f1"))
  \/ \E th \in SUBSET Listeners : ListenerCancel(TransferIdOf("f1"), th)
  \/ \E i \in 0..1 : RetryTimerFire("A", TransferIdOf("f1"), i)
  \/ DeleteTimerFire("A", TransferIdOf("f1"))

ListenerSpec == OpenInit /\ [][ListenerNext]_vars

\* ------------------------------------------------------------------ ThreadPool
\* exit codes of a worker thread: 0, and 1 for every non-zero code
ExitCodes == {0, 1}

\* task.resolve / task.reject: only the first settlement of a promise counts
Settle(pr, k, outcome) ==
  IF pr[k] = "pending" THEN [pr EXCEPT ![k] = outcome] ELSE pr

\* processQueue with taskQueue.pop() in place of taskQueue.shift()
ProcessQueueLifo(q, a, w) ==
  IF q = <<>> \/ a >= MaxWorkers
  THEN /\ taskQueue' = q
       /\ activeWorkers' = a
       /\ workers' = w
       /\ UNCHANGED startOrder
  ELSE /\ taskQueue' = SubSeq(q, 1, Len(q) - 1)
       /\ activeWorkers' = a + 1
       /\ workers' = [w EXCEPT ![q[Len(q)]] = "running"]
       /\ startOrder' = Append(startOrder, q[Len(q)])

\* processQueue() as a function of the pool's state st = [q, a, w, so]: the
\* queue, the counter, the workers and the start order
ProcessQueueOn(st) ==
  IF st.q = <<>> \/ st.a >= MaxWorkers
  THEN st
  ELSE [q |-> Tail(st.q), a |-> st.a + 1,
        w |-> [st.w EXCEPT ![Head(st.q)] = "running"],
        so |-> Append(st.so, Head(st.q))]

\* processQueue(), run on the queue q, the counter a and the workers w that
\* the calling handler has produced so far
ProcessQueue(q, a, w) ==
  LET st == ProcessQueueOn([q |-> q, a |-> a, w |-> w, so |-> startOrder])
  IN  /\ taskQueue' = st.q
      /\ activeWorkers' = st.a
      /\ workers' = st.w
      /\ startOrder' = st.so

\* the value the worker of task k posts
ResultOf(k) == <<"result", k>>

\* the position of task k in the array handed to executeParallel
IndexOf(par, k) == CHOOSE i \in 1..Len(par.tasks) : par.tasks[i] = k

InBatch(par, k) == \E i \in 1..Len(par.tasks) : par.tasks[i] = k

\* Promise.all collecting the values in the order the promises resolve
PromiseAllReactByFinish(par, k, outcome) ==
  IF promises[k] # "pending" \/ par.state # "pending" \/ ~InBatch(par, k)
  THEN par
  ELSE IF outcome = "rejected"
       THEN [par EXCEPT !.state = "rejected"]
       ELSE LET vals == par.values @@ (Len(par.values) + 1 :> ResultOf(k))
            IN  [par EXCEPT !.values = vals,
                            !.state = IF DOMAIN vals = 1..Len(par.tasks)
                                      THEN "resolved" ELSE @]

\* the reaction of Promise.all to the settlement of the promise of task k:
\* the first rejection rejects it, a value is stored at the index of its
\* promise, and the last value resolves it
PromiseAllReact(par, k, outcome) ==
  IF promises[k] # "pending" \/ par.state # "pending" \/ ~InBatch(par, k)
  THEN par
  ELSE IF outcome = "rejected"
       THEN [par EXCEPT !.state = "rejected"]
       ELSE LET vals == (IndexOf(par, k) :> ResultOf(k)) @@ par.values
            IN  [par EXCEPT !.values = vals,
                            !.state = IF DOMAIN vals = 1..Len(par.tasks)
                                      THEN "resolved" ELSE @]

\* executeTask(taskScript, taskData): tasks are numbered in submission order
ExecuteTask(k) ==
  /\ promises[k] = "none"
  /\ \A j \in Tasks : j < k => promises[j] # "none"
  /\ promises' = [promises EXCEPT ![k] = "pending"]
  /\ ProcessQueue(Append(taskQueue, k), activeWorkers, workers)
  /\ UNCHANGED <<transferVars, injected, listenerVars, parallel, backendVars>>

\* worker.on('message'): the worker of task k posted its result
WorkerMessage(k) ==
  /\ workers[k] = "running"
  /\ promises' = Settle(promises, k, "resolved")
  /\ parallel' = PromiseAllReact(parallel, k, "resolved")
  /\ ProcessQueue(taskQueue, activeWorkers - 1,
                  [workers EXCEPT ![k] = "messaged"])
  /\ UNCHANGED <<transferVars, injected, listenerVars, backendVars>>

\* worker.on('error'): the worker of task k threw
WorkerError(k) ==
  /\ workers[k] = "running"
  /\ promises' = Settle(promises, k, "rejected")
  /\ parallel' = PromiseAllReact(parallel, k, "rejected")
  /\ ProcessQueue(taskQueue, activeWorkers - 1,
                  [workers EXCEPT ![k] = "errored"])
  /\ UNCHANGED <<transferVars, injected, listenerVars, backendVars>>

\* worker.on('exit'): the thread of task k has ended.  A running worker ends
\* with any code; after an uncaught error the code is 1; after a message the
\* code is 1 when worker.terminate() stopped the thread and 0 when the thread
\* had already run to its end.
WorkerExit(k, code) ==
  /\ workers[k] \in {"running", "messaged", "errored"}
  /\ workers[k] = "errored" => code = 1
  /\ IF code # 0
     THEN /\ promises' = Settle(promises, k, "rejected")
          /\ parallel' = PromiseAllReact(parallel, k, "rejected")
          /\ ProcessQueue(taskQueue, activeWorkers - 1,
                          [workers EXCEPT ![k] = "exited"])
     ELSE /\ workers' = [workers EXCEPT ![k] = "exited"]
          /\ UNCHANGED <<promises, taskQueue, activeWorkers, startOrder,
                         parallel>>
  /\ UNCHANGED <<transferVars, injected, listenerVars, backendVars>>

PoolNext ==
  \/ \E k \in Tasks : ExecuteTask(k)
  \/ \E k \in Tasks : WorkerMessage(k)
  \/ \E k \in Tasks : WorkerError(k)
  \/ \E k \in Tasks, code \in ExitCodes : WorkerExit(k, code)

PoolSpec == Init /\ [][PoolNext]_vars

\* every started worker eventually ends: it posts, throws or exits
WorkerEnds(k) ==
  \/ WorkerMessage(k)
  \/ WorkerError(k)
  \/ \E code \in ExitCodes : WorkerExit(k, code)

PoolFairSpec == PoolSpec /\ \A k \in Tasks : WF_vars(WorkerEnds(k))

\* tasks.map(task => this.executeTask(...)): the tasks ks are queued one
\* after the other, processQueue running after each
RECURSIVE SubmitAll(_, _)
SubmitAll(ks, st) ==
  IF ks = <<>> THEN st
  ELSE SubmitAll(Tail(ks), ProcessQueueOn([st EXCEPT !.q = Append(@, Head(ks))]))

\* executeParallel(tasks) with n tasks, numbered in submission order
ExecuteParallel(n) ==
  /\ parallel.state = "none"
  /\ LET first == Cardinality({k \in Tasks : promises[k] # "none"}) + 1
         ks == [i \in 1..n |-> first + i - 1]
         st == SubmitAll(ks, [q |-> taskQueue, a |-> activeWorkers,
                              w |-> workers, so |-> startOrder])
     IN  /\ first + n - 1 <= MaxTasks
         /\ promises' = [k \in Tasks |->
                           IF k \in first..(first + n - 1) THEN "pending"
                           ELSE promises[k]]
         /\ taskQueue' = st.q
         /\ activeWorkers' = st.a
         /\ workers' = st.w
         /\ startOrder' = st.so
         /\ parallel' = [state |-> "pending", tasks |-> ks, values |-> <<>>]
  /\ UNCHANGED <<transferVars, injected, listenerVars, backendVars>>

\* the pool with one executeParallel call among single executeTask calls
ParallelNext ==
  \/ \E n \in 1..MaxTasks : ExecuteParallel(n)
  \/ \E k \in Tasks : ExecuteTask(k)
  \/ \E k \in Tasks : WorkerMessage(k)
  \/ \E k \in Tasks : WorkerError(k)
  \/ \E k \in Tasks, code \in ExitCodes : WorkerExit(k, code)

ParallelSpec == Init /\ [][ParallelNext]_vars

\* ------------------------------------------------------------------ ChatServer (server.js)
WorkerIds == 0 .. (MAX_WORKERS - 1)

\* the userId of a connecting client's handshake query
UserIds == {"u1", "u2"}

\* socket.id of the n-th connection, and the clientId fields of UDP messages
SocketId(n) == <<"socket", n>>
UdpClientIds == {<<"udp", 1>>}

\* Map.set / Map.delete on a map kept as a function
MapSet(m, k, v) == (k :> v) @@ m
MapDelete(m, k) ==
  IF DOMAIN m \ {k} = {} THEN <<>> ELSE [x \in DOMAIN m \ {k} |-> m[x]]

\* the loop of assignWorker over this.workers from position i on, best being
\* the position of leastBusyWorker so far
RECURSIVE LeastBusy(_, _, _)
LeastBusy(ws, i, best) ==
  IF i > Len(ws) THEN best
  ELSE LeastBusy(ws, i + 1,
                 IF ws[i].clientCount < ws[best].clientCount THEN i ELSE best)

\* assignWorker(): the workers after leastBusyWorker.clientCount++ and the id
\* returned
AssignWorker(ws) ==
  LET b == LeastBusy(ws, 1, 1)
  IN  [workers |-> [ws EXCEPT ![b].clientCount = @ + 1], id |-> ws[b].id]

\* start(): returns at once on a running server; otherwise initWorkers creates
\* the MAX_WORKERS threads and start waits for them.  The application calls
\* start on a new or a running server.
Start ==
  /\ serverEnv.calls < MaxLifecycleCalls
  /\ ~serverEnv.starting /\ ~serverEnv.stopping
  /\ chatServer.isRunning \/ serverEnv.threads = <<>>
  /\ serverEnv' = IF chatServer.isRunning
                  THEN [serverEnv EXCEPT !.calls = @ + 1]
                  ELSE [serverEnv EXCEPT !.calls = @ + 1, !.starting = TRUE,
                                         !.threads = [i \in WorkerIds |-> "starting"]]
  /\ UNCHANGED <<chatServer, tcpSocket>>
  /\ UNCHANGED <<transferVars, injected, poolVars, parallel, listenerVars>>

\* the rest of start() once initWorkers has resolved: this.workers is set,
\* then startTcpServer, startUdpServer and isRunning = true; fail names the
\* call that throws ("tcp": new Server, "udp": udpServer.bind), after which
\* the catch block calls shutdown(), which returns at once as isRunning is
\* still false
StartContinue(cs, fail) ==
  LET ws == [k \in 1..MAX_WORKERS |->
               [id |-> k - 1, worker |-> k - 1, clientCount |-> 0]]
  IN  CASE fail = "tcp" -> [cs EXCEPT !.workers = ws]
        [] fail = "udp" -> [cs EXCEPT !.workers = ws, !.tcpServer = "open",
                                      !.udpServer = "open"]
        [] OTHER -> [cs EXCEPT !.workers = ws, !.tcpServer = "open",
                               !.udpServer = "open", !.isRunning = TRUE]

\* worker.on('message') with type 'ready' in createWorker: the promise of
\* worker i resolves; the last one resolves the Promise.all of initWorkers
WorkerReady(i, fail) ==
  /\ serverEnv.threads # <<>>
  /\ serverEnv.threads[i] = "starting"
  /\ LET th == [serverEnv.threads EXCEPT ![i] = "ready"]
         last == serverEnv.starting /\ \A j \in WorkerIds : th[j] = "ready"
     IN  /\ ~last => fail = "none"
         /\ serverEnv' = [serverEnv EXCEPT !.threads = th,
                                           !.starting = IF last THEN FALSE ELSE @,
                                           !.failed = IF last THEN fail # "none" ELSE @]
         /\ chatServer' = IF last THEN StartContinue(chatServer, fail)
                          ELSE chatServer
  /\ UNCHANGED tcpSocket
  /\ UNCHANGED <<transferVars, injected, poolVars, parallel, listenerVars>>

\* worker.on('error', reject) in createWorker while the thread starts up: the
\* thread has ended; the first rejection rejects initWorkers and start()
\* reaches its catch block, whose shutdown() returns at once
ServerWorkerError(i) ==
  /\ serverEnv.threads # <<>>
  /\ serverEnv.threads[i] = "starting"
  /\ serverEnv' = [serverEnv EXCEPT !.threads[i] = "error",
                                    !.starting = FALSE,
                                    !.failed = @ \/ serverEnv.starting]
  /\ UNCHANGED <<chatServer, tcpSocket>>
  /\ UNCHANGED <<transferVars, injected, poolVars, parallel, listenerVars>>

\* tcpServer.on('connection'): a client of user userId connects
Connection(userId) ==
  /\ chatServer.tcpServer = "open"
  /\ serverEnv.connections < MaxConnections
  /\ LET clientId == SocketId(serverEnv.connections + 1)
         online == chatServer.onlineUsers \cup {userId}
         a == AssignWorker(chatServer.workers)
     IN  /\ chatServer' = [chatServer EXCEPT
                             !.onlineUsers = online,
                             !.workers = a.workers,
                             !.clientWorkerMap = MapSet(@, clientId, a.id)]
         /\ serverEnv' = [serverEnv EXCEPT
                            !.connections = @ + 1,
                            !.sockets = MapSet(@, clientId, userId),
                            !.emitted = online]
  /\ UNCHANGED tcpSocket
  /\ UNCHANGED <<transferVars, injected, poolVars, parallel, listenerVars>>

\* the 'disconnect' handler of the socket clientId, run on the server cs
OnDisconnect(cs, clientId, userId) ==
  [cs EXCEPT !.clientWorkerMap = IF clientId \in DOMAIN @
                                 THEN MapDelete(@, clientId) ELSE @,
             !.onlineUsers = @ \ {userId}]

\* socket.on('disconnect'): the client closes its connection
Disconnect(clientId) ==
  /\ clientId \in DOMAIN serverEnv.sockets
  /\ chatServer' = OnDisconnect(chatServer, clientId, serverEnv.sockets[clientId])
  /\ serverEnv' = [serverEnv EXCEPT
                     !.sockets = MapDelete(@, clientId),
                     !.emitted = chatServer'.onlineUsers]
  /\ UNCHANGED tcpSocket
  /\ UNCHANGED <<transferVars, injected, poolVars, parallel, listenerVars>>

\* udpServer.on('message') with a datagram that names clientId: a client not
\* yet in clientWorkerMap is assigned to a worker
UdpMessage(clientId) ==
  /\ chatServer.udpServer = "open"
  /\ chatServer.isRunning
  /\ chatServer' = IF clientId \in DOMAIN chatServer.clientWorkerMap
                   THEN chatServer
                   ELSE LET a == AssignWorker(chatServer.workers)
                        IN  [chatServer EXCEPT
                               !.workers = a.workers,
                               !.clientWorkerMap = MapSet(@, clientId, a.id)]
  /\ UNCHANGED <<serverEnv, tcpSocket>>
  /\ UNCHANGED <<transferVars, injected, poolVars, parallel, listenerVars>>

\* the 'disconnect' handlers of the sockets in cs, one after the other
RECURSIVE DisconnectAll(_, _, _)
DisconnectAll(cs, socks, n) ==
  IF n = 0 THEN cs
  ELSE LET rest == DisconnectAll(cs, socks, n - 1)
       IN  IF SocketId(n) \in DOMAIN socks
           THEN OnDisconnect(rest, SocketId(n), socks[SocketId(n)])
           ELSE rest

\* shutdown(): returns at once on a server that is not running; otherwise it
\* closes the TCP server (every open socket is disconnected), closes the UDP
\* server and posts 'shutdown' to every worker
Shutdown ==
  /\ serverEnv.calls < MaxLifecycleCalls
  /\ ~serverEnv.starting /\ ~serverEnv.stopping
  /\ IF ~chatServer.isRunning
     THEN /\ serverEnv' = [serverEnv EXCEPT !.calls = @ + 1]
          /\ UNCHANGED chatServer
     ELSE LET cs == DisconnectAll(chatServer, serverEnv.sockets,
                                  serverEnv.connections)
          IN  /\ chatServer' = [cs EXCEPT !.tcpServer = "closed",
                                          !.udpServer = "closed"]
              /\ serverEnv' = [serverEnv EXCEPT
                                 !.calls = @ + 1, !.stopping = TRUE,
                                 !.sockets = <<>>,
                                 !.emitted = IF serverEnv.sockets = <<>> THEN @
                                             ELSE cs.onlineUsers]
  /\ UNCHANGED tcpSocket
  /\ UNCHANGED <<transferVars, injected, poolVars, parallel, listenerVars>>

\* the worker thread i handles 'shutdown' and posts 'shutdown-complete'; the
\* last one resolves the Promise.all of shutdown(), which sets isRunning false
ShutdownComplete(i) ==
  /\ serverEnv.stopping
  /\ serverEnv.threads[i] = "ready"
  /\ LET th == [serverEnv.threads EXCEPT ![i] = "shutdown"]
         last == \A j \in WorkerIds : th[j] = "shutdown"
     IN  /\ serverEnv' = [serverEnv EXCEPT !.threads = th,
                                           !.stopping = ~last]
         /\ chatServer' = [chatServer EXCEPT !.isRunning = ~last]
  /\ UNCHANGED tcpSocket
  /\ UNCHANGED <<transferVars, injected, poolVars, parallel, listenerVars>>

ServerNext ==
  \/ Start
  \/ \E i \in WorkerIds, fail \in {"none", "tcp", "udp"} : WorkerReady(i, fail)
  \/ \E i \in WorkerIds : ServerWorkerError(i)
  \/ \E u \in UserIds : Connection(u)
  \/ \E n \in 1..MaxConnections : Disconnect(SocketId(n))
  \/ \E c \in UdpClientIds : UdpMessage(c)
  \/ Shutdown
  \/ \E i \in WorkerIds : ShutdownComplete(i)

ServerSpec == Init /\ [][ServerNext]_vars

\* ------------------------------------------------------------------ TCP file server (network.js)
\* the bytes of a stream: the braces of the metadata text, the newline that
\* ends it, and a file byte
NL == "\n"
FileBytes == {"x", NL}

\* JSON.stringify(fileInfo) as the client writes it: an object text, which
\* holds no newline
MetaText == <<"{", "}">>

\* the file contents a client sends: every byte sequence up to MaxContent
Contents == UNION {[1..n -> FileBytes] : n \in 0..MaxContent}

\* data.indexOf(b): the zero-based position of the first b in data, or -1
BufferIndexOf(data, b) ==
  LET hits == {k \in 1..Len(data) : data[k] = b}
  IN  IF hits = {} THEN -1
      ELSE (CHOOSE k \in hits : \A j \in hits : k <= j) - 1

\* data.slice(from, to) with zero-based from and exclusive to
BufferSlice(data, from, to) == SubSeq(data, from + 1, to)

\* JSON.parse(text): over these bytes the only JSON text is the object text;
\* anything else, the empty string included, throws a SyntaxError
JsonParse(text) ==
  IF text = MetaText THEN [ok |-> TRUE, value |-> "fileInfo"]
  ELSE [ok |-> FALSE, value |-> "SyntaxError"]

\* a client connects to the TCP file server and will write the metadata line
\* followed by the file content
TcpClientConnect(content) ==
  /\ tcpSocket.state = "none"
  /\ tcpSocket' = [state |-> "open", content |-> content,
                   stream |-> MetaText \o <<NL>> \o content,
                   fileData |-> <<>>, fileInfo |-> "null"]
  /\ UNCHANGED <<chatServer, serverEnv>>
  /\ UNCHANGED <<transferVars, injected, poolVars, parallel, listenerVars>>

\* socket.on('data') with the next n bytes of the stream; an exception out of
\* the handler is uncaught and ends the process
SocketData(n) ==
  /\ tcpSocket.state = "open"
  /\ n \in 1..Len(tcpSocket.stream)
  /\ LET data == SubSeq(tcpSocket.stream, 1, n)
         rest == SubSeq(tcpSocket.stream, n + 1, Len(tcpSocket.stream))
         metaEndIndex == BufferIndexOf(data, NL)
         parsed == JsonParse(BufferSlice(data, 0, metaEndIndex))
     IN  tcpSocket' =
           IF tcpSocket.fileInfo = "null"
           THEN IF metaEndIndex # -1
                THEN IF parsed.ok
                     THEN [tcpSocket EXCEPT
                             !.stream = rest,
                             !.fileInfo = parsed.value,
                             !.fileData = @ \o BufferSlice(data, metaEndIndex + 1,
                                                           Len(data))]
                     ELSE [tcpSocket EXCEPT !.stream = rest, !.state = "crashed"]
                ELSE [tcpSocket EXCEPT !.stream = rest]
           ELSE [tcpSocket EXCEPT !.stream = rest, !.fileData = @ \o data]
  /\ UNCHANGED <<chatServer, serverEnv>>
  /\ UNCHANGED <<transferVars, injected, poolVars, parallel, listenerVars>>

\* socket.on('end'): with fileInfo set, fileData is handed to the worker that
\* writes the file
SocketEnd ==
  /\ tcpSocket.state = "open"
  /\ tcpSocket.stream = <<>>
  /\ tcpSocket' = [tcpSocket EXCEPT
                     !.state = IF tcpSocket.fileInfo # "null" THEN "saved"
                               ELSE "ended"]
  /\ UNCHANGED <<chatServer, serverEnv>>
  /\ UNCHANGED <<transferVars, injected, poolVars, parallel, listenerVars>>

StreamNext ==
  \/ \E content \in Contents : TcpClientConnect(content)
  \/ \E n \in 1..(Len(MetaText) + 1 + MaxContent) : SocketData(n)
  \/ SocketEnd

StreamSpec == Init /\ [][StreamNext]_vars

\* ------------------------------------------------------------------ observation helpers
\* the logged calls of peer p
Calls(p) == {sent[p][k] : k \in 1..Len(sent[p])}

IsChunkCall(e, t) == e.msg.type = "file-chunk" /\ e.msg.transferId = t

IsCancelCall(e, t) ==
  e.chan = "tcp" /\ e.msg.type = "file-transfer-cancel" /\ e.msg.transferId = t

\* sends of chunk i of transfer t by p over channel chan
ChunkCalls(p, chan, t, i) ==
  LET Sel(e) == IsChunkCall(e, t) /\ e.chan = chan /\ e.msg.chunkIndex = i
  IN  Len(SelectSeq(sent[p], Sel))

\* sends of any chunk of transfer t by p on either channel
AllChunkCalls(p, t) ==
  LET Sel(e) == IsChunkCall(e, t)
  IN  Len(SelectSeq(sent[p], Sel))

\* file-transfer-cancel messages for t handed by p to sendTcpMessage
CancelMessageCalls(p, t) ==
  LET Sel(e) == IsCancelCall(e, t)
  IN  Len(SelectSeq(sent[p], Sel))

AllIndices(rec) == 0 .. (rec.totalChunks - 1)

TerminalEvents(p, t) ==
  events[p][t]["complete"] + events[p][t]["file-received"]
    + events[p][t]["error"] + events[p][t]["cancelled"]

\* a step in which peer p runs cancelTransfer(t): called by the application or
\* through a delivered file-transfer-cancel message
CancelStep(p, t) ==
  \/ CancelCall(p, t)
  \/ /\ tcpNet[p] # <<>>
     /\ Head(tcpNet[p]).type = "file-transfer-cancel"
     /\ Head(tcpNet[p]).transferId = t
     /\ (TcpDeliver(p) \/ TcpDeliverAgain(p))

\* ------------------------------------------------------------------ claims
\* C1: on the sending side a 'complete' event (and status 'complete') occurs
\* only when every chunk index in [0, totalChunks) has been acknowledged, and
\* a record with every index acknowledged has been reported complete.
C1_CompleteOnlyWhenAllAcked ==
  \A p \in Peers, t \in TransferIds :
    LET rec == transfers[p][t]
    IN  IsSenderRecord(rec) =>
          /\ (events[p][t]["complete"] > 0 \/ rec.status = "complete")
               => AllIndices(rec) \subseteq rec.acknowledgedChunks
          /\ (rec.acknowledgedChunks = AllIndices(rec) /\ rec.totalChunks > 0)
               => events[p][t]["complete"] > 0

\* C2: on the receiving side a record is 'complete' only when receivedChunks
\* holds every one of the totalChunks indices, whatever the arrival order of
\* the chunks (stated for a record whose metadata was handled once, so that
\* the arrival order of the chunks alone decides it).
C2_ReceiverCompleteOnlyWhenAllReceived ==
  \A p \in Peers, t \in TransferIds :
    LET rec == transfers[p][t]
    IN  (/\ IsReceiverRecord(rec)
         /\ rec.status = "complete"
         /\ events[p][t]["incoming-file"] = 1)
          => AllIndices(rec) \subseteq DOMAIN rec.receivedChunks

\* C3: each side emits at most one terminal event per transfer, and a record
\* in a terminal status has produced exactly one.
C3_OneTerminalEvent ==
  \A p \in Peers, t \in TransferIds :
    /\ TerminalEvents(p, t) <= 1
    /\ transfers[p][t].status \in {"complete", "error", "cancelled"}
         => TerminalEvents(p, t) = 1

\* C4: for a chunk that stays unacknowledged, k retry-timer fires have produced
\* min(k, MAX_RETRY_COUNT) resends of the chunk over the unreliable channel
\* and, once k exceeds MAX_RETRY_COUNT, exactly one resend over the reliable one.
C4_RetriesThenFallback ==
  \A p \in Peers, t \in TransferIds :
    LET rec == transfers[p][t]
    IN  (IsSenderRecord(rec) /\ rec.status = "sending") =>
          \A i \in DOMAIN rec.retries :
            LET k == rec.retries[i].count
            IN  /\ ChunkCalls(p, "udp", t, i) = 1 + Min(k, MAX_RETRY_COUNT)
                /\ ChunkCalls(p, "tcp", t, i) = IF k > MAX_RETRY_COUNT THEN 1 ELSE 0

\* C5: cancelTransfer on a record that is already 'cancelled' or 'complete'
\* changes no status, sends nothing, emits nothing and schedules nothing.
C5_CancelIdempotent ==
  [][\A p \in Peers, t \in TransferIds :
       (transfers[p][t].status \in {"cancelled", "complete"} /\ CancelStep(p, t))
         => /\ transfers' = transfers
            /\ events' = events
            /\ sent' = sent
            /\ deleteTimers' = deleteTimers
            /\ toWorker' = toWorker]_vars

C8_ChunkingRoundTrip ==
  \A p \in Peers, t \in TransferIds :
    /\ wkTransfers[p][t].status # "none" =>
         LET w == wkTransfers[p][t]
         IN  /\ w.totalChunks * CHUNK_SIZE >= w.fileSize
             /\ (w.totalChunks - 1) * CHUNK_SIZE < w.fileSize
             /\ \A k \in 1..Len(fromWorker[p]) :
                  fromWorker[p][k].type = "send-chunk" =>
                    LET m == fromWorker[p][k]
                    IN  /\ m.chunkIndex \in 0 .. (w.totalChunks - 1)
                        /\ m.chunk[1] = m.chunkIndex * CHUNK_SIZE
                        /\ m.chunk[2] = Min((m.chunkIndex + 1) * CHUNK_SIZE, w.fileSize)
    /\ LET rec == transfers[p][t]
       IN  (IsReceiverRecord(rec) /\ AllIndices(rec) \subseteq DOMAIN rec.receivedChunks) =>
             /\ DOMAIN rec.receivedChunks = AllIndices(rec)
             /\ \A i \in AllIndices(rec) :
                  /\ rec.receivedChunks[i][1] = (IF i = 0 THEN 0 ELSE rec.receivedChunks[i - 1][2])
                  /\ i = rec.totalChunks - 1 => rec.receivedChunks[i][2] = rec.fileSize

\* C9: a zero-byte transfer reaches 'complete' on both records (a record whose
\* chunks have all been acknowledged, or received, is complete), and no chunk
\* message with an index outside [0, totalChunks) is sent for it.
C9_ZeroByteCompletes ==
  \A p \in Peers, t \in TransferIds :
    LET rec == transfers[p][t]
    IN  (rec.status # "none" /\ rec.fileSize = 0) =>
          /\ \A e \in Calls(p) :
               IsChunkCall(e, t) => e.msg.chunkIndex \in AllIndices(rec)
          /\ (/\ IsSenderRecord(rec)
              /\ wkTransfers[p][t].status = "complete"
              /\ fromWorker[p] = <<>>
              /\ rec.acknowledgedChunks = rec.sentChunks
              /\ events[p][t]["cancelled"] = 0)
               => rec.status = "complete"
          /\ (/\ IsReceiverRecord(rec)
              /\ tcpNet[p] = <<>> /\ udpNet[p] = {}
              /\ wkTransfers[Other(p)][t].status = "complete"
              /\ events[p][t]["cancelled"] = 0)
               => rec.status = "complete"

\* C10: when the metadata could not be handed to the reliable channel
\* (sendTcpMessage returned false), the record exists but is not 'sending':
\* it is in status 'error'.
C10_UnreachableMetadataIsError ==
  \A p \in Peers, t \in TransferIds :
    (\E e \in Calls(p) :
        /\ e.msg.type = "file-metadata"
        /\ e.msg.transferId = t
        /\ ~e.ok)
      => /\ transfers[p][t].status # "sending"
         /\ (events[p][t]["cancelled"] = 0 => transfers[p][t].status = "error")

\* file-chunk-ack messages for chunk i of transfer t handed by p to
\* sendTcpMessage: one per chunk message p handled while 'receiving'
AckCalls(p, t, i) ==
  LET Sel(e) == /\ e.msg.type = "file-chunk-ack"
                /\ e.msg.transferId = t
                /\ e.msg.chunkIndex = i
  IN  Len(SelectSeq(sent[p], Sel))

\* a step in which peer p handles a file-metadata message of transfer t
MetadataStep(p, t) ==
  /\ tcpNet[p] # <<>>
  /\ Head(tcpNet[p]).type = "file-metadata"
  /\ Head(tcpNet[p]).transferId = t
  /\ (TcpDeliver(p) \/ TcpDeliverAgain(p))

\* C11: when a chunk message of a transfer has been handled twice by the
\* receiver (its metadata handled once), receivedChunks holds for every stored
\* index the slice that one delivery stores, and the receiver has emitted at
\* most one 'file-received' event, exactly one once the record is 'complete'.
C11_ReceiverIdempotent ==
  \A p \in Peers, t \in TransferIds :
    LET rec == transfers[p][t]
    IN  (/\ IsReceiverRecord(rec)
         /\ events[p][t]["incoming-file"] = 1
         /\ \E i \in 0..3 : AckCalls(p, t, i) >= 2)
          => /\ \A i \in DOMAIN rec.receivedChunks :
                  rec.receivedChunks[i] = SliceOf(i, rec.fileSize)
             /\ events[p][t]["file-received"] <= 1
             /\ rec.status = "complete" => events[p][t]["file-received"] = 1

\* C12: handling a file-metadata message whose transferId already has a
\* record leaves the record (status, receivedChunks) as it was and emits no
\* further 'incoming-file' event.
C12_DuplicateMetadataIgnored ==
  [][\A p \in Peers, t \in TransferIds :
       (transfers[p][t].status # "none" /\ MetadataStep(p, t))
         => /\ transfers'[p][t] = transfers[p][t]
            /\ events'[p][t] = events[p][t]]_vars

StaleStatuses == {"none", "complete", "cancelled", "error"}

\* C13: handling a file-chunk or file-chunk-ack message whose transferId has
\* no record, or a record in a terminal status, changes no record, sends
\* nothing (no acknowledgement), emits no event, posts nothing to the worker
\* and touches no timer; so a chunk arriving before its metadata is dropped.
C13_StaleMessagesIgnored ==
  [][\A m \in OpenMessages :
       (/\ m.type \in {"file-chunk", "file-chunk-ack"}
        /\ transfers["A"][m.transferId].status \in StaleStatuses
        /\ OpenDeliver(m))
         => /\ transfers' = transfers
            /\ events' = events
            /\ sent' = sent
            /\ tcpNet' = tcpNet
            /\ toWorker' = toWorker
            /\ timers' = timers
            /\ deleteTimers' = deleteTimers]_vars

\* the acknowledgement of chunk 0 was handled after the cancellation of its
\* transfer: the chunk is still unacknowledged on the cancelled record
C13_Witness ==
  LET t == TransferIdOf("f1")
  IN  /\ injected = <<[type |-> "file-transfer-cancel", transferId |-> t],
                      [type |-> "file-chunk-ack", transferId |-> t,
                       chunkIndex |-> 0, status |-> "received"]>>
      /\ IsSenderRecord(transfers["A"][t])
      /\ transfers["A"][t].status = "cancelled"
      /\ transfers["A"][t].sentChunks = {0}
      /\ transfers["A"][t].acknowledgedChunks = {}
      /\ events["A"][t]["cancelled"] = 1

\* C14: handling an acknowledgement for chunk i of transfer T leaves the
\* record and the timers of every other transfer unchanged and, within T,
\* leaves sentChunks and the acknowledgement, retry entry and timer of every
\* index other than i unchanged (a record that is not a sender's stays as it
\* is); an acknowledgement whose status is not 'received' changes nothing.
C14_AckIsolation ==
  [][\A m \in OpenMessages :
       (m.type = "file-chunk-ack" /\ OpenDeliver(m)) =>
         LET T == m.transferId
             i == m.chunkIndex
             old == transfers["A"][T]
             new == transfers'["A"][T]
         IN  /\ \A t \in OpenIds \ {T} :
                  /\ transfers'["A"][t] = transfers["A"][t]
                  /\ \A j \in 0..1 : (<<t, j>> \in timers'["A"]) = (<<t, j>> \in timers["A"])
             /\ transfers'["B"] = transfers["B"]
             /\ IF IsSenderRecord(old)
                THEN /\ IsSenderRecord(new)
                     /\ new.sentChunks = old.sentChunks
                     /\ new.acknowledgedChunks \ {i} = old.acknowledgedChunks \ {i}
                     /\ \A j \in (0..1) \ {i} :
                          /\ (j \in DOMAIN new.retries) = (j \in DOMAIN old.retries)
                          /\ j \in DOMAIN old.retries => new.retries[j] = old.retries[j]
                          /\ (<<T, j>> \in timers'["A"]) = (<<T, j>> \in timers["A"])
                ELSE new = old
             /\ m.status # "received"
                  => /\ transfers' = transfers
                     /\ timers' = timers
                     /\ events' = events
                     /\ sent' = sent]_vars

\* chunk 0 of the two-chunk transfer was acknowledged while chunk 1 of it and
\* the chunk of the other transfer are sent, unacknowledged and on their timers
C14_Witness ==
  LET t == TransferIdOf("f1")
      u == TransferIdOf("f2")
  IN  /\ injected = <<[type |-> "file-chunk-ack", transferId |-> t,
                       chunkIndex |-> 0, status |-> "received"]>>
      /\ transfers["A"][t].status = "sending"
      /\ transfers["A"][t].sentChunks = {0, 1}
      /\ transfers["A"][t].acknowledgedChunks = {0}
      /\ DOMAIN transfers["A"][t].retries = {1}
      /\ timers["A"] = {<<t, 1>>, <<u, 0>>}
      /\ transfers["A"][u].status = "sending"
      /\ transfers["A"][u].sentChunks = {0}
      /\ transfers["A"][u].acknowledgedChunks = {}

\* the worker threads that are executing their task
RunningWorkers == {k \in Tasks : workers[k] = "running"}

\* the worker threads that have not ended yet
LiveWorkers == {k \in Tasks : workers[k] \in {"running", "messaged", "errored"}}

\* C15: the number of worker threads running at the same time never exceeds
\* maxWorkers.
C15_AtMostMaxWorkers == Cardinality(RunningWorkers) <= MaxWorkers

\* C16: every task submitted to the pool is eventually started, given that
\* every started worker eventually ends.
C16_EveryTaskStarts ==
  \A k \in Tasks : (promises[k] # "none") ~> (workers[k] # "unstarted")

\* C17: the promise of a task whose worker has ended is settled, and while
\* tasks wait in the queue some worker is still to end (the pool goes on
\* dispatching).
C17_EndSettlesPromise ==
  /\ \A k \in Tasks :
       workers[k] = "exited" => promises[k] \in {"resolved", "rejected"}
  /\ taskQueue # <<>> => LiveWorkers # {}

\* C18: workers are started in submission order: the started tasks are in
\* increasing order of submission, and every task still waiting was submitted
\* after every started task and waits in submission order.
C18_FifoStart ==
  /\ \A i, j \in 1..Len(startOrder) : i < j => startOrder[i] < startOrder[j]
  /\ \A i, j \in 1..Len(taskQueue) : i < j => taskQueue[i] < taskQueue[j]
  /\ \A i \in 1..Len(startOrder), j \in 1..Len(taskQueue) :
       startOrder[i] < taskQueue[j]

\* three tasks were submitted while the first was running; the first two have
\* run one after the other, the third waits for the second to end
C18_Witness ==
  /\ startOrder = <<1, 2>>
  /\ taskQueue = <<3>>
  /\ workers = (1 :> "exited") @@ (2 :> "running") @@ (3 :> "unstarted")
  /\ promises = (1 :> "rejected") @@ (2 :> "pending") @@ (3 :> "pending")

TerminalStatuses == {"complete", "error", "cancelled"}

\* C19: a record that has reached a terminal status is eventually removed
\* from the transfers map, and a record is removed only in a terminal status.
C19_TerminalRecordsRemoved ==
  /\ \A p \in Peers, t \in TransferIds :
       (transfers[p][t].status \in TerminalStatuses)
         ~> (transfers[p][t].status = "none")
  /\ [][\A p \in Peers, t \in TransferIds :
          (transfers[p][t].status # "none" /\ transfers'[p][t].status = "none")
            => transfers[p][t].status \in TerminalStatuses]_vars

\* C20: the identifier sendFile returned names the transfer's record, so that
\* cancelTransfer called with it on the sender cancels the 'sending' record
\* of that file.
C20_ReturnedIdCancels ==
  [][\A f \in started :
       (/\ transfers["A"][TransferIdOf(f)].status = "sending"
        /\ CancelCall("A", SendFileReturn(f)))
         => /\ TransferOf("A", SendFileReturn(f)) = transfers["A"][TransferIdOf(f)]
            /\ transfers'["A"][TransferIdOf(f)].status = "cancelled"]_vars

\* C30: executeParallel resolves only when the promise of every task of the
\* batch is resolved, its values being the task results in the order of
\* the tasks array, whatever the order in which the workers finished; it is
\* rejected exactly when the promise of some task of the batch is rejected.
C30_ParallelResults ==
  LET n == Len(parallel.tasks)
      batch == {parallel.tasks[i] : i \in 1..n}
  IN  /\ parallel.state = "resolved" =>
            /\ \A k \in batch : promises[k] = "resolved"
            /\ parallel.values = [i \in 1..n |-> ResultOf(parallel.tasks[i])]
      /\ parallel.state = "rejected" <=> \E k \in batch : promises[k] = "rejected"
      /\ parallel.state = "pending" => \E k \in batch : promises[k] = "pending"

\* the worker of the third task of a batch posted its result before the worker
\* of the second did: the value is stored at index 3 while index 2 is empty
C30_Witness ==
  /\ parallel.state = "pending"
  /\ parallel.tasks = <<1, 2, 3>>
  /\ DOMAIN parallel.values = {1, 3}
  /\ parallel.values[3] = ResultOf(3)
  /\ promises[2] = "pending"

\* C21: an emitEvent call made while some callbacks throw calls every callback
\* registered for the event kind, once each and in registration order, lets
\* no exception reach its caller, and leaves the manager as the same call
\* leaves it when no callback throws: cancelTransfer runs to its end.
C21_ListenerThrowIsolated ==
  [][\A t \in OpenIds, th \in SUBSET Listeners :
       (TransferOf("A", t).status # "none" /\ ListenerCancel(t, th))
         => /\ lastEmit'.kind = "cancelled"
            /\ Len(lastEmit'.calls) = Len(listeners["cancelled"])
            /\ \A i \in 1..Len(lastEmit'.calls) :
                 lastEmit'.calls[i].listener = listeners["cancelled"][i]
            /\ ~lastEmit'.propagated
            /\ CancelTransfer("A", t, tcpNet)
            /\ transfers'["A"][t].status = "cancelled"
            /\ deleteTimers'["A"][t] = deleteTimers["A"][t] + 1]_vars

\* a 'sending' transfer was cancelled while the first of the two callbacks
\* registered for 'cancelled' threw: the second was called after it and the
\* removal of the record is scheduled
C21_Witness ==
  LET t == TransferIdOf("f1")
  IN  /\ Len(lastEmit.calls) = 2
      /\ lastEmit.calls[1].threw
      /\ ~lastEmit.calls[2].threw
      /\ listeners["complete"] # <<>>
      /\ transfers["A"][t].status = "cancelled"
      /\ transfers["A"][t].sentChunks = {0}
      /\ deleteTimers["A"][t] = 1
      /\ events["A"][t]["cancelled"] = 1

\* C22: every record of a sender that is 'sending', its metadata handed to the
\* reliable channel and its chunks (at least one) all read by the worker,
\* eventually leaves 'sending', given that timers fire, worker and network
\* messages are handled and the reliable channel delivers what it was handed.
C22_SendingEventuallyEnds ==
  \A p \in Peers, t \in TransferIds :
    (/\ IsSenderRecord(transfers[p][t])
     /\ transfers[p][t].status = "sending"
     /\ transfers[p][t].totalChunks >= 1
     /\ wkTransfers[p][t].status = "complete"
     /\ \E e \in Calls(p) :
          e.msg.type = "file-metadata" /\ e.msg.transferId = t /\ e.ok)
      ~> (transfers[p][t].status # "sending")

\* C23: on a sender's record an acknowledged chunk has no retry timer armed
\* and no retry entry, and no step sends it again on either channel: the
\* number of sends of the chunk does not grow once it is acknowledged.
C23_AckedNeverResent ==
  /\ [](\A p \in Peers, t \in TransferIds :
          IsSenderRecord(transfers[p][t]) =>
            \A i \in transfers[p][t].acknowledgedChunks :
              /\ <<t, i>> \notin timers[p]
              /\ i \notin DOMAIN transfers[p][t].retries)
  /\ [][\A p \in Peers, t \in TransferIds :
          IsSenderRecord(transfers[p][t]) =>
            \A i \in transfers[p][t].acknowledgedChunks :
              /\ ChunkCalls(p, "udp", t, i)' = ChunkCalls(p, "udp", t, i)
              /\ ChunkCalls(p, "tcp", t, i)' = ChunkCalls(p, "tcp", t, i)]_vars

\* chunk 1 of a two-chunk transfer was acknowledged and its timer cleared
\* while chunk 0, sent once as well, had its retry timer fire unacknowledged
C23_Witness ==
  \E t \in TransferIds :
    /\ IsSenderRecord(transfers["A"][t])
    /\ transfers["A"][t].status = "sending"
    /\ transfers["A"][t].acknowledgedChunks = {1}
    /\ DOMAIN transfers["A"][t].retries = {0}
    /\ transfers["A"][t].retries[0].count = 1
    /\ timers["A"] = {}
    /\ ChunkCalls("A", "udp", t, 1) = 1

ChunkLog(p, t) == SelectSeq(sent[p], LAMBDA e : IsChunkCall(e, t))

\* C26: for a transfer of at least one chunk the sender hands the metadata to
\* the reliable channel before it sends any chunk; the chunks go out over the
\* unreliable channel with indices 0, 1, ... in increasing order, each once;
\* every sent index is in sentChunks and got a retry entry with its timer
\* armed; isLast is true on the chunk with index totalChunks - 1 and on no
\* other; and once the worker has read the whole file and the manager has
\* handled its messages, every index has been sent (unless cancelled).
C26_SendOrder ==
  \A p \in Peers, t \in TransferIds :
    LET rec == transfers[p][t]
        log == ChunkLog(p, t)
    IN  (\A k \in 1..Len(log) : log[k].msg.totalChunks >= 1) =>
          /\ \A k \in 1..Len(sent[p]) :
               IsChunkCall(sent[p][k], t) =>
                 \E j \in 1..(k - 1) :
                   /\ sent[p][j].chan = "tcp"
                   /\ sent[p][j].msg.type = "file-metadata"
                   /\ sent[p][j].msg.transferId = t
          /\ \A k \in 1..Len(log) :
               /\ log[k].chan = "udp"
               /\ log[k].msg.chunkIndex = k - 1
               /\ log[k].msg.chunkIndex < log[k].msg.totalChunks
               /\ log[k].msg.isLast = (log[k].msg.chunkIndex = log[k].msg.totalChunks - 1)
          /\ IsSenderRecord(rec) =>
               /\ rec.sentChunks = {log[k].msg.chunkIndex : k \in 1..Len(log)}
               /\ \A i \in rec.sentChunks :
                    i \in rec.acknowledgedChunks \/ i \in DOMAIN rec.retries
               /\ rec.status = "sending" =>
                    \A i \in DOMAIN rec.retries :
                      rec.retries[i].count = 0 => <<t, i>> \in timers[p]
               /\ (/\ rec.totalChunks >= 1
                   /\ wkTransfers[p][t].status = "complete"
                   /\ fromWorker[p] = <<>>
                   /\ events[p][t]["cancelled"] = 0)
                    => rec.sentChunks = AllIndices(rec)

\* the two chunks of a transfer were sent after its metadata, in order, and
\* both retry timers are armed
C26_Witness ==
  \E t \in TransferIds :
    /\ IsSenderRecord(transfers["A"][t])
    /\ transfers["A"][t].status = "sending"
    /\ transfers["A"][t].sentChunks = {0, 1}
    /\ timers["A"] = {<<t, 0>>, <<t, 1>>}
    /\ Len(ChunkLog("A", t)) = 2
    /\ ~ChunkLog("A", t)[1].msg.isLast
    /\ ChunkLog("A", t)[2].msg.isLast
    /\ sent["A"][1].msg.type = "file-metadata"

\* a step in which peer p handles the chunk message m, arrived on either
\* channel
ChunkStep(p, m) ==
  \/ /\ m \in udpNet[p]
     /\ (UdpDeliver(p, m) \/ UdpDeliverAgain(p, m))
  \/ /\ tcpNet[p] # <<>>
     /\ Head(tcpNet[p]) = m
     /\ (TcpDeliver(p) \/ TcpDeliverAgain(p))

\* the chunk messages in flight to p
ChunksInFlight(p) ==
  {m \in udpNet[p] \cup (IF tcpNet[p] = <<>> THEN {} ELSE {Head(tcpNet[p])}) :
     m.type = "file-chunk"}

\* C27: a chunk message handled while its record is 'receiving', first copy
\* or duplicate, is stored at receivedChunks[chunkIndex] and answered with one
\* file-chunk-ack for its transferId and chunkIndex, handed to the reliable
\* channel; and no step sends an acknowledgement for an index that the record
\* does not hold.
C27_StoreThenAck ==
  [][\A p \in Peers :
       /\ \A m \in ChunksInFlight(p) :
            (transfers[p][m.transferId].status = "receiving" /\ ChunkStep(p, m)) =>
              LET t == m.transferId
                  i == m.chunkIndex
                  n == Len(sent'[p])
              IN  /\ IsReceiverRecord(transfers'[p][t])
                  /\ i \in DOMAIN transfers'[p][t].receivedChunks
                  /\ transfers'[p][t].receivedChunks[i] = m.chunk
                  /\ n = Len(sent[p]) + 1
                  /\ sent'[p][n] = [chan |-> "tcp", ok |-> TRUE,
                                    msg |-> [type |-> "file-chunk-ack",
                                             transferId |-> t, chunkIndex |-> i,
                                             status |-> "received"]]
                  /\ Len(tcpNet'[Other(p)]) >= 1
                  /\ tcpNet'[Other(p)][Len(tcpNet'[Other(p)])] = sent'[p][n].msg
       /\ \A k \in (Len(sent[p]) + 1)..Len(sent'[p]) :
            sent'[p][k].msg.type = "file-chunk-ack" =>
              LET a == sent'[p][k].msg
              IN  /\ IsReceiverRecord(transfers'[p][a.transferId])
                  /\ a.chunkIndex \in DOMAIN transfers'[p][a.transferId].receivedChunks]_vars

\* chunk 0 of a two-chunk transfer was handled twice while 'receiving': it is
\* stored once and was acknowledged twice; chunk 1 has not arrived
C27_Witness ==
  \E t \in TransferIds :
    /\ IsReceiverRecord(transfers["B"][t])
    /\ transfers["B"][t].status = "receiving"
    /\ DOMAIN transfers["B"][t].receivedChunks = {0}
    /\ transfers["B"][t].receivedChunks[0] = SliceOf(0, CHUNK_SIZE + 1)
    /\ AckCalls("B", t, 0) = 2
    /\ AckCalls("B", t, 1) = 0

\* a step in which peer p handles a file-transfer-cancel message of transfer t
CancelMessageStep(p, t) ==
  /\ tcpNet[p] # <<>>
  /\ Head(tcpNet[p]).type = "file-transfer-cancel"
  /\ Head(tcpNet[p]).transferId = t
  /\ (TcpDeliver(p) \/ TcpDeliverAgain(p))

C29_DisconnectedSendsNothing ==
  [][\A p \in Peers :
       (~connected[p] /\ Len(sent'[p]) > Len(sent[p])) =>
         /\ tcpNet' = tcpNet
         /\ udpNet' = udpNet
         /\ \A k \in (Len(sent[p]) + 1)..Len(sent'[p]) :
              LET e == sent'[p][k]
              IN  /\ ~e.ok
                  /\ (e.chan = "udp" /\ e.msg.type = "file-chunk") =>
                       /\ e.msg.chunkIndex \in transfers'[p][e.msg.transferId].sentChunks
                       /\ <<e.msg.transferId, e.msg.chunkIndex>> \in timers'[p]]_vars

\* the sender was never connected: its metadata call and its chunk call both
\* returned false, nothing is in flight, and the chunk's timer is armed
C29_Witness ==
  \E t \in TransferIds :
    /\ ~connected["A"]
    /\ Len(sent["A"]) = 2
    /\ sent["A"][1].chan = "tcp" /\ ~sent["A"][1].ok
    /\ sent["A"][2].chan = "udp" /\ ~sent["A"][2].ok
    /\ tcpNet["B"] = <<>>
    /\ udpNet["B"] = {}
    /\ <<t, 0>> \in timers["A"]

\* every clientId the ChatServer can see
ClientIds == {SocketId(n) : n \in 1..MaxConnections} \cup UdpClientIds

\* the number of clients that clientWorkerMap maps to worker w
Present(cs, w) ==
  Cardinality({c \in DOMAIN cs.clientWorkerMap : cs.clientWorkerMap[c] = w})

\* C31: whenever a new client is put into clientWorkerMap, the worker chosen
\* for it is one with the fewest clients present in clientWorkerMap just
\* before the assignment.
C31_LeastBusyAssigned ==
  [][\A c \in ClientIds :
       (/\ c \notin DOMAIN chatServer.clientWorkerMap
        /\ c \in DOMAIN chatServer'.clientWorkerMap)
       => \A w \in WorkerIds :
            Present(chatServer, chatServer'.clientWorkerMap[c])
              <= Present(chatServer, w)]_vars

\* the user ids that have at least one open connection
ConnectedUsers == {serverEnv.sockets[c] : c \in DOMAIN serverEnv.sockets}

\* C36: onlineUsers is exactly the set of user ids with at least one open
\* connection.
C36_OnlineUsersExact == chatServer.onlineUsers = ConnectedUsers

\* C38: after a failed start no worker thread of the server is alive and
\* neither server socket is open.
C38_FailedStartReleasesAll ==
  serverEnv.failed =>
    /\ \A i \in WorkerIds : serverEnv.threads[i] \notin {"starting", "ready"}
    /\ chatServer.tcpServer # "open"
    /\ chatServer.udpServer # "open"

\* C32: activeWorkers is never negative and equals the number of workers
\* that were started and have raised none of their end events yet.
C32_ActiveWorkersAccounting ==
  /\ activeWorkers >= 0
  /\ activeWorkers = Cardinality(RunningWorkers)

\* C33: whenever the sender's record of a transfer has status 'complete', the
\* receiver's record of it holds a received chunk for every index in
\* [0, totalChunks).
C33_EndToEndAgreement ==
  \A p \in Peers, t \in TransferIds :
    (IsSenderRecord(transfers[p][t]) /\ transfers[p][t].status = "complete")
    => /\ IsReceiverRecord(transfers[Other(p)][t])
       /\ AllIndices(transfers[p][t])
            \subseteq DOMAIN transfers[Other(p)][t].receivedChunks

\* C34: a record whose status is 'cancelled' or 'complete' never takes a
\* different status afterwards (it may be removed from the map).
C34_TerminalAbsorbing ==
  [][\A p \in Peers, t \in TransferIds :
       transfers[p][t].status \in {"cancelled", "complete"}
       => transfers'[p][t].status \in {transfers[p][t].status, "none"}]_vars

\* the file-transfer-cancel messages in flight to peer p
CancelsInFlight(p) ==
  {k \in 1..Len(tcpNet[p]) : tcpNet[p][k].type = "file-transfer-cancel"}

C37_SegmentationIndependent ==
  /\ tcpSocket.state # "crashed"
  /\ (tcpSocket.state \in {"saved", "ended"})
     => /\ tcpSocket.state = "saved"
        /\ tcpSocket.fileInfo = JsonParse(MetaText).value
        /\ tcpSocket.fileData = tcpSocket.content
====
